---- MODULE Spec2Model ----
(***************************************************************************)
(* Model of the health-tracker bot: the daily checklist conversation       *)
(* (src/bot/checklist.py), the tables it writes (src/bot/db.py) and the    *)
(* dispatch of updates to handlers (src/bot/main.py).                      *)
(*                                                                         *)
(* User supplied strings (callback data, message text) are sequences of    *)
(* one-character strings, so that strip(), int() and capitalize() are      *)
(* computed.  A character that a module cannot hold in a string (the       *)
(* backtick, the characters of the basic plane whose code ends in a byte   *)
(* under 80 hex, such as U+0100 or U+2003, and the characters above        *)
(* U+FFFF) is the string of its code point, "U+" and its hexadecimal       *)
(* digits: "U+0060", "U+0100", "U+1D7D8".  Such a string is one character  *)
(* of the text, as <<"a", "U+0100">> is the text of two characters.        *)
(* Python values are tagged records: None, IntV(n), StrV(s), DictV(d).     *)
(* A Python dict is a function whose DOMAIN is its key set.                *)
(***************************************************************************)
EXTENDS Integers, Sequences, FiniteSets, TLC

(***************************************************************************)
(* Bounds of the exploration.                                              *)
(***************************************************************************)
\* Number of updates, over the whole run, that depart from the plain run of
\* ReferenceInput; every other update is explored at every point of a run.
MaxOffScript == 1
\* Number of upserts into daily_checklist that fail since the last /checklist.
MaxFaults == 1
\* What the user does, over the whole run, in another chat than the one of
\* SpecKeys: the number of updates of any kind (SpecMulti), the number of
\* /checklist commands (SpecCommands).
MaxForeign == 1

(***************************************************************************)
(* Python values.                                                          *)
(***************************************************************************)
None == [t |-> "none"]
IntV(n) == [t |-> "int", i |-> n]
StrV(s) == [t |-> "str", s |-> s]
DictV(d) == [t |-> "dict", d |-> d]

EmptyDict == << >>
Put(d, k, v) == [x \in (DOMAIN d) \cup {k} |-> IF x = k THEN v ELSE d[x]]
Pop(d, k) == [x \in (DOMAIN d) \ {k} |-> d[x]]
\* dict.get(k): None when the key is absent
Get(d, k) == IF k \in DOMAIN d THEN d[k] ELSE None

\* Python truthiness of a value
Truthy(v) ==
    CASE v.t = "none" -> FALSE
      [] v.t = "int" -> v.i # 0
      [] v.t = "str" -> Len(v.s) > 0
      [] v.t = "dict" -> DOMAIN v.d # {}
      [] OTHER -> TRUE

(***************************************************************************)
(* str.strip(), int(str), str.capitalize() on character sequences.         *)
(***************************************************************************)
\* The characters str.strip() takes for whitespace (str.isspace):
\* \t, \n, U+000B, \f, \r, U+001C..U+001F, space, U+0085, U+00A0, U+1680,
\* U+2000..U+200A, U+2028, U+2029, U+202F, U+205F, U+3000.
Whitespace ==
    {
     "\t", "\n", "", "\f", "\r", "", "", "", "", " ", "", " ", " ",
     "U+2000", "U+2001", "U+2002", "U+2003", "U+2004", "U+2005", "U+2006",
     "U+2007", "U+2008", "U+2009", "U+200A", "U+2028", "U+2029", "U+202F",
     "U+205F", "U+3000"
    }
\* The whitespace int() skips around the number: that of str.strip() without
\* U+001C..U+001F, which int() rejects (int("\x1c5") raises ValueError).
IntSpace ==
    {
     "\t", "\n", "", "\f", "\r", " ", "", " ", " ", "U+2000", "U+2001",
     "U+2002", "U+2003", "U+2004", "U+2005", "U+2006", "U+2007", "U+2008",
     "U+2009", "U+200A", "U+2028", "U+2029", "U+202F", "U+205F", "U+3000"
    }
DigitChars == <<"0", "1", "2", "3", "4", "5", "6", "7", "8", "9">>
\* The decimal digits of other scripts int() reads, one row per script in
\* the order of their values 0..9; the rows start at
\* U+0660, U+06F0, U+07C0, U+0966, U+09E6, U+0A66, U+0AE6, U+0B66, U+0BE6,
\* U+0C66, U+0CE6, U+0D66, U+0DE6, U+0E50, U+0ED0, U+0F20, U+1040, U+1090,
\* U+17E0, U+1810, U+1946, U+19D0, U+1A80, U+1A90, U+1B50, U+1BB0, U+1C40,
\* U+1C50, U+A620, U+A8D0, U+A900, U+A9D0, U+A9F0, U+AA50, U+ABF0, U+FF10,
\* U+104A0, U+10D30, U+11066, U+110F0, U+11136, U+111D0, U+112F0, U+11450,
\* U+114D0, U+11650, U+116C0, U+11730, U+118E0, U+11950, U+11C50, U+11D50,
\* U+11DA0, U+16A60, U+16AC0, U+16B50, U+1D7CE, U+1D7D8, U+1D7E2, U+1D7EC,
\* U+1D7F6, U+1E140, U+1E2F0, U+1E950, U+1FBF0.
ScriptDigits == <<
    <<"U+0660", "U+0661", "U+0662", "U+0663", "U+0664", "U+0665", "U+0666", "U+0667", "U+0668", "U+0669">>,
    <<"۰", "۱", "۲", "۳", "۴", "۵", "۶", "۷", "۸", "۹">>,
    <<"߀", "߁", "߂", "߃", "߄", "߅", "߆", "߇", "߈", "߉">>,
    <<"U+0966", "U+0967", "U+0968", "U+0969", "U+096A", "U+096B", "U+096C", "U+096D", "U+096E", "U+096F">>,
    <<"০", "১", "২", "৩", "৪", "৫", "৬", "৭", "৮", "৯">>,
    <<"U+0A66", "U+0A67", "U+0A68", "U+0A69", "U+0A6A", "U+0A6B", "U+0A6C", "U+0A6D", "U+0A6E", "U+0A6F">>,
    <<"૦", "૧", "૨", "૩", "૪", "૫", "૬", "૭", "૮", "૯">>,
    <<"U+0B66", "U+0B67", "U+0B68", "U+0B69", "U+0B6A", "U+0B6B", "U+0B6C", "U+0B6D", "U+0B6E", "U+0B6F">>,
    <<"௦", "௧", "௨", "௩", "௪", "௫", "௬", "௭", "௮", "௯">>,
    <<"U+0C66", "U+0C67", "U+0C68", "U+0C69", "U+0C6A", "U+0C6B", "U+0C6C", "U+0C6D", "U+0C6E", "U+0C6F">>,
    <<"೦", "೧", "೨", "೩", "೪", "೫", "೬", "೭", "೮", "೯">>,
    <<"U+0D66", "U+0D67", "U+0D68", "U+0D69", "U+0D6A", "U+0D6B", "U+0D6C", "U+0D6D", "U+0D6E", "U+0D6F">>,
    <<"෦", "෧", "෨", "෩", "෪", "෫", "෬", "෭", "෮", "෯">>,
    <<"U+0E50", "U+0E51", "U+0E52", "U+0E53", "U+0E54", "U+0E55", "U+0E56", "U+0E57", "U+0E58", "U+0E59">>,
    <<"໐", "໑", "໒", "໓", "໔", "໕", "໖", "໗", "໘", "໙">>,
    <<"U+0F20", "U+0F21", "U+0F22", "U+0F23", "U+0F24", "U+0F25", "U+0F26", "U+0F27", "U+0F28", "U+0F29">>,
    <<"U+1040", "U+1041", "U+1042", "U+1043", "U+1044", "U+1045", "U+1046", "U+1047", "U+1048", "U+1049">>,
    <<"႐", "႑", "႒", "႓", "႔", "႕", "႖", "႗", "႘", "႙">>,
    <<"០", "១", "២", "៣", "៤", "៥", "៦", "៧", "៨", "៩">>,
    <<"U+1810", "U+1811", "U+1812", "U+1813", "U+1814", "U+1815", "U+1816", "U+1817", "U+1818", "U+1819">>,
    <<"U+1946", "U+1947", "U+1948", "U+1949", "U+194A", "U+194B", "U+194C", "U+194D", "U+194E", "U+194F">>,
    <<"᧐", "᧑", "᧒", "᧓", "᧔", "᧕", "᧖", "᧗", "᧘", "᧙">>,
    <<"᪀", "᪁", "᪂", "᪃", "᪄", "᪅", "᪆", "᪇", "᪈", "᪉">>,
    <<"᪐", "᪑", "᪒", "᪓", "᪔", "᪕", "᪖", "᪗", "᪘", "᪙">>,
    <<"U+1B50", "U+1B51", "U+1B52", "U+1B53", "U+1B54", "U+1B55", "U+1B56", "U+1B57", "U+1B58", "U+1B59">>,
    <<"᮰", "᮱", "᮲", "᮳", "᮴", "᮵", "᮶", "᮷", "᮸", "᮹">>,
    <<"U+1C40", "U+1C41", "U+1C42", "U+1C43", "U+1C44", "U+1C45", "U+1C46", "U+1C47", "U+1C48", "U+1C49">>,
    <<"U+1C50", "U+1C51", "U+1C52", "U+1C53", "U+1C54", "U+1C55", "U+1C56", "U+1C57", "U+1C58", "U+1C59">>,
    <<"U+A620", "U+A621", "U+A622", "U+A623", "U+A624", "U+A625", "U+A626", "U+A627", "U+A628", "U+A629">>,
    <<"꣐", "꣑", "꣒", "꣓", "꣔", "꣕", "꣖", "꣗", "꣘", "꣙">>,
    <<"U+A900", "U+A901", "U+A902", "U+A903", "U+A904", "U+A905", "U+A906", "U+A907", "U+A908", "U+A909">>,
    <<"꧐", "꧑", "꧒", "꧓", "꧔", "꧕", "꧖", "꧗", "꧘", "꧙">>,
    <<"꧰", "꧱", "꧲", "꧳", "꧴", "꧵", "꧶", "꧷", "꧸", "꧹">>,
    <<"U+AA50", "U+AA51", "U+AA52", "U+AA53", "U+AA54", "U+AA55", "U+AA56", "U+AA57", "U+AA58", "U+AA59">>,
    <<"꯰", "꯱", "꯲", "꯳", "꯴", "꯵", "꯶", "꯷", "꯸", "꯹">>,
    <<"U+FF10", "U+FF11", "U+FF12", "U+FF13", "U+FF14", "U+FF15", "U+FF16", "U+FF17", "U+FF18", "U+FF19">>,
    <<"U+104A0", "U+104A1", "U+104A2", "U+104A3", "U+104A4", "U+104A5", "U+104A6", "U+104A7", "U+104A8", "U+104A9">>,
    <<"U+10D30", "U+10D31", "U+10D32", "U+10D33", "U+10D34", "U+10D35", "U+10D36", "U+10D37", "U+10D38", "U+10D39">>,
    <<"U+11066", "U+11067", "U+11068", "U+11069", "U+1106A", "U+1106B", "U+1106C", "U+1106D", "U+1106E", "U+1106F">>,
    <<"U+110F0", "U+110F1", "U+110F2", "U+110F3", "U+110F4", "U+110F5", "U+110F6", "U+110F7", "U+110F8", "U+110F9">>,
    <<"U+11136", "U+11137", "U+11138", "U+11139", "U+1113A", "U+1113B", "U+1113C", "U+1113D", "U+1113E", "U+1113F">>,
    <<"U+111D0", "U+111D1", "U+111D2", "U+111D3", "U+111D4", "U+111D5", "U+111D6", "U+111D7", "U+111D8", "U+111D9">>,
    <<"U+112F0", "U+112F1", "U+112F2", "U+112F3", "U+112F4", "U+112F5", "U+112F6", "U+112F7", "U+112F8", "U+112F9">>,
    <<"U+11450", "U+11451", "U+11452", "U+11453", "U+11454", "U+11455", "U+11456", "U+11457", "U+11458", "U+11459">>,
    <<"U+114D0", "U+114D1", "U+114D2", "U+114D3", "U+114D4", "U+114D5", "U+114D6", "U+114D7", "U+114D8", "U+114D9">>,
    <<"U+11650", "U+11651", "U+11652", "U+11653", "U+11654", "U+11655", "U+11656", "U+11657", "U+11658", "U+11659">>,
    <<"U+116C0", "U+116C1", "U+116C2", "U+116C3", "U+116C4", "U+116C5", "U+116C6", "U+116C7", "U+116C8", "U+116C9">>,
    <<"U+11730", "U+11731", "U+11732", "U+11733", "U+11734", "U+11735", "U+11736", "U+11737", "U+11738", "U+11739">>,
    <<"U+118E0", "U+118E1", "U+118E2", "U+118E3", "U+118E4", "U+118E5", "U+118E6", "U+118E7", "U+118E8", "U+118E9">>,
    <<"U+11950", "U+11951", "U+11952", "U+11953", "U+11954", "U+11955", "U+11956", "U+11957", "U+11958", "U+11959">>,
    <<"U+11C50", "U+11C51", "U+11C52", "U+11C53", "U+11C54", "U+11C55", "U+11C56", "U+11C57", "U+11C58", "U+11C59">>,
    <<"U+11D50", "U+11D51", "U+11D52", "U+11D53", "U+11D54", "U+11D55", "U+11D56", "U+11D57", "U+11D58", "U+11D59">>,
    <<"U+11DA0", "U+11DA1", "U+11DA2", "U+11DA3", "U+11DA4", "U+11DA5", "U+11DA6", "U+11DA7", "U+11DA8", "U+11DA9">>,
    <<"U+16A60", "U+16A61", "U+16A62", "U+16A63", "U+16A64", "U+16A65", "U+16A66", "U+16A67", "U+16A68", "U+16A69">>,
    <<"U+16AC0", "U+16AC1", "U+16AC2", "U+16AC3", "U+16AC4", "U+16AC5", "U+16AC6", "U+16AC7", "U+16AC8", "U+16AC9">>,
    <<"U+16B50", "U+16B51", "U+16B52", "U+16B53", "U+16B54", "U+16B55", "U+16B56", "U+16B57", "U+16B58", "U+16B59">>,
    <<"U+1D7CE", "U+1D7CF", "U+1D7D0", "U+1D7D1", "U+1D7D2", "U+1D7D3", "U+1D7D4", "U+1D7D5", "U+1D7D6", "U+1D7D7">>,
    <<"U+1D7D8", "U+1D7D9", "U+1D7DA", "U+1D7DB", "U+1D7DC", "U+1D7DD", "U+1D7DE", "U+1D7DF", "U+1D7E0", "U+1D7E1">>,
    <<"U+1D7E2", "U+1D7E3", "U+1D7E4", "U+1D7E5", "U+1D7E6", "U+1D7E7", "U+1D7E8", "U+1D7E9", "U+1D7EA", "U+1D7EB">>,
    <<"U+1D7EC", "U+1D7ED", "U+1D7EE", "U+1D7EF", "U+1D7F0", "U+1D7F1", "U+1D7F2", "U+1D7F3", "U+1D7F4", "U+1D7F5">>,
    <<"U+1D7F6", "U+1D7F7", "U+1D7F8", "U+1D7F9", "U+1D7FA", "U+1D7FB", "U+1D7FC", "U+1D7FD", "U+1D7FE", "U+1D7FF">>,
    <<"U+1E140", "U+1E141", "U+1E142", "U+1E143", "U+1E144", "U+1E145", "U+1E146", "U+1E147", "U+1E148", "U+1E149">>,
    <<"U+1E2F0", "U+1E2F1", "U+1E2F2", "U+1E2F3", "U+1E2F4", "U+1E2F5", "U+1E2F6", "U+1E2F7", "U+1E2F8", "U+1E2F9">>,
    <<"U+1E950", "U+1E951", "U+1E952", "U+1E953", "U+1E954", "U+1E955", "U+1E956", "U+1E957", "U+1E958", "U+1E959">>,
    <<"U+1FBF0", "U+1FBF1", "U+1FBF2", "U+1FBF3", "U+1FBF4", "U+1FBF5", "U+1FBF6", "U+1FBF7", "U+1FBF8", "U+1FBF9">>
    >>
Digits ==
    {DigitChars[i] : i \in 1..10}
        \cup {ScriptDigits[r][i] : r \in DOMAIN ScriptDigits, i \in 1..10}
DigitVal(c) ==
    (CHOOSE i \in 1..10 :
        IF \E j \in 1..10 : DigitChars[j] = c
        THEN DigitChars[i] = c
        ELSE \E r \in DOMAIN ScriptDigits : ScriptDigits[r][i] = c) - 1

RECURSIVE LStrip(_, _)
LStrip(s, ws) == IF Len(s) > 0 /\ Head(s) \in ws THEN LStrip(Tail(s), ws) ELSE s
RECURSIVE RStrip(_, _)
RStrip(s, ws) ==
    IF Len(s) > 0 /\ s[Len(s)] \in ws
    THEN RStrip(SubSeq(s, 1, Len(s) - 1), ws)
    ELSE s
Strip(s) == RStrip(LStrip(s, Whitespace), Whitespace)

RECURSIVE DigitsValue(_)
DigitsValue(s) ==
    IF Len(s) = 0 THEN 0
    ELSE 10 * DigitsValue(SubSeq(s, 1, Len(s) - 1)) + DigitVal(s[Len(s)])

\* the digits of an integer literal as int() takes it: decimal digits of any
\* script, with single underscores allowed between two of them
IntBody(s) ==
    /\ Len(s) > 0
    /\ s[1] \in Digits
    /\ s[Len(s)] \in Digits
    /\ \A i \in 1..Len(s) : s[i] \in Digits \cup {"_"}
    /\ \A i \in 1..(Len(s) - 1) : ~(s[i] = "_" /\ s[i + 1] = "_")

\* int(s): [ok |-> TRUE, v |-> n], or ok = FALSE where Python raises ValueError.
PyInt(s) ==
    LET b == RStrip(LStrip(s, IntSpace), IntSpace)
        signed == Len(b) > 0 /\ Head(b) \in {"+", "-"}
        body == IF signed THEN Tail(b) ELSE b
        digits == SelectSeq(body, LAMBDA c : c # "_")
    IN  IF IntBody(body)
        THEN [ok |-> TRUE,
              v |-> IF signed /\ Head(b) = "-"
                    THEN 0 - DigitsValue(digits) ELSE DigitsValue(digits)]
        ELSE [ok |-> FALSE, v |-> 0]

\* str.capitalize(): the first character in title case, the others in lower
\* case, by the full case mappings of Unicode (one character may become
\* several).  TitlePairs and LowerPairs hold every character that its
\* mapping changes, with its image; CaseIgnorable and Cased are the two
\* properties of characters the rule of the final sigma reads.
TitlePairs ==
    {
     <<"a", <<"A">>>>, <<"b", <<"B">>>>, <<"c", <<"C">>>>, <<"d", <<"D">>>>,
     <<"e", <<"E">>>>, <<"f", <<"F">>>>, <<"g", <<"G">>>>, <<"h", <<"H">>>>,
     <<"i", <<"I">>>>, <<"j", <<"J">>>>, <<"k", <<"K">>>>, <<"l", <<"L">>>>,
     <<"m", <<"M">>>>, <<"n", <<"N">>>>, <<"o", <<"O">>>>, <<"p", <<"P">>>>,
     <<"q", <<"Q">>>>, <<"r", <<"R">>>>, <<"s", <<"S">>>>, <<"t", <<"T">>>>,
     <<"u", <<"U">>>>, <<"v", <<"V">>>>, <<"w", <<"W">>>>, <<"x", <<"X">>>>,
     <<"y", <<"Y">>>>, <<"z", <<"Z">>>>, <<"µ", <<"Μ">>>>,
     <<"ß", <<"S", "s">>>>, <<"à", <<"À">>>>, <<"á", <<"Á">>>>,
     <<"â", <<"Â">>>>, <<"ã", <<"Ã">>>>, <<"ä", <<"Ä">>>>, <<"å", <<"Å">>>>,
     <<"æ", <<"Æ">>>>, <<"ç", <<"Ç">>>>, <<"è", <<"È">>>>, <<"é", <<"É">>>>,
     <<"ê", <<"Ê">>>>, <<"ë", <<"Ë">>>>, <<"ì", <<"Ì">>>>, <<"í", <<"Í">>>>,
     <<"î", <<"Î">>>>, <<"ï", <<"Ï">>>>, <<"ð", <<"Ð">>>>, <<"ñ", <<"Ñ">>>>,
     <<"ò", <<"Ò">>>>, <<"ó", <<"Ó">>>>, <<"ô", <<"Ô">>>>, <<"õ", <<"Õ">>>>,
     <<"ö", <<"Ö">>>>, <<"ø", <<"Ø">>>>, <<"ù", <<"Ù">>>>, <<"ú", <<"Ú">>>>,
     <<"û", <<"Û">>>>, <<"ü", <<"Ü">>>>, <<"ý", <<"Ý">>>>, <<"þ", <<"Þ">>>>,
     <<"ÿ", <<"U+0178">>>>, <<"U+0101", <<"U+0100">>>>,
     <<"U+0103", <<"U+0102">>>>, <<"U+0105", <<"U+0104">>>>,
     <<"U+0107", <<"U+0106">>>>, <<"U+0109", <<"U+0108">>>>,
     <<"U+010B", <<"U+010A">>>>, <<"U+010D", <<"U+010C">>>>,
     <<"U+010F", <<"U+010E">>>>, <<"U+0111", <<"U+0110">>>>,
     <<"U+0113", <<"U+0112">>>>, <<"U+0115", <<"U+0114">>>>,
     <<"U+0117", <<"U+0116">>>>, <<"U+0119", <<"U+0118">>>>,
     <<"U+011B", <<"U+011A">>>>, <<"U+011D", <<"U+011C">>>>,
     <<"U+011F", <<"U+011E">>>>, <<"U+0121", <<"U+0120">>>>,
     <<"U+0123", <<"U+0122">>>>, <<"U+0125", <<"U+0124">>>>,
     <<"U+0127", <<"U+0126">>>>, <<"U+0129", <<"U+0128">>>>,
     <<"U+012B", <<"U+012A">>>>, <<"U+012D", <<"U+012C">>>>,
     <<"U+012F", <<"U+012E">>>>, <<"U+0131", <<"I">>>>,
     <<"U+0133", <<"U+0132">>>>, <<"U+0135", <<"U+0134">>>>,
     <<"U+0137", <<"U+0136">>>>, <<"U+013A", <<"U+0139">>>>,
     <<"U+013C", <<"U+013B">>>>, <<"U+013E", <<"U+013D">>>>,
     <<"U+0140", <<"U+013F">>>>, <<"U+0142", <<"U+0141">>>>,
     <<"U+0144", <<"U+0143">>>>, <<"U+0146", <<"U+0145">>>>,
     <<"U+0148", <<"U+0147">>>>, <<"U+0149", <<"ʼ", "N">>>>,
     <<"U+014B", <<"U+014A">>>>, <<"U+014D", <<"U+014C">>>>,
     <<"U+014F", <<"U+014E">>>>, <<"U+0151", <<"U+0150">>>>,
     <<"U+0153", <<"U+0152">>>>, <<"U+0155", <<"U+0154">>>>,
     <<"U+0157", <<"U+0156">>>>, <<"U+0159", <<"U+0158">>>>,
     <<"U+015B", <<"U+015A">>>>, <<"U+015D", <<"U+015C">>>>,
     <<"U+015F", <<"U+015E">>>>, <<"U+0161", <<"U+0160">>>>,
     <<"U+0163", <<"U+0162">>>>, <<"U+0165", <<"U+0164">>>>,
     <<"U+0167", <<"U+0166">>>>, <<"U+0169", <<"U+0168">>>>,
     <<"U+016B", <<"U+016A">>>>, <<"U+016D", <<"U+016C">>>>,
     <<"U+016F", <<"U+016E">>>>, <<"U+0171", <<"U+0170">>>>,
     <<"U+0173", <<"U+0172">>>>, <<"U+0175", <<"U+0174">>>>,
     <<"U+0177", <<"U+0176">>>>, <<"U+017A", <<"U+0179">>>>,
     <<"U+017C", <<"U+017B">>>>, <<"U+017E", <<"U+017D">>>>,
     <<"U+017F", <<"S">>>>, <<"ƀ", <<"U+0243">>>>, <<"ƃ", <<"Ƃ">>>>,
     <<"ƅ", <<"Ƅ">>>>, <<"ƈ", <<"Ƈ">>>>, <<"ƌ", <<"Ƌ">>>>, <<"ƒ", <<"Ƒ">>>>,
     <<"ƕ", <<"Ƕ">>>>, <<"ƙ", <<"Ƙ">>>>, <<"ƚ", <<"U+023D">>>>,
     <<"ƞ", <<"U+0220">>>>, <<"ơ", <<"Ơ">>>>, <<"ƣ", <<"Ƣ">>>>,
     <<"ƥ", <<"Ƥ">>>>, <<"ƨ", <<"Ƨ">>>>, <<"ƭ", <<"Ƭ">>>>, <<"ư", <<"Ư">>>>,
     <<"ƴ", <<"Ƴ">>>>, <<"ƶ", <<"Ƶ">>>>, <<"ƹ", <<"Ƹ">>>>, <<"ƽ", <<"Ƽ">>>>,
     <<"ƿ", <<"Ƿ">>>>, <<"Ǆ", <<"ǅ">>>>, <<"ǆ", <<"ǅ">>>>, <<"Ǉ", <<"ǈ">>>>,
     <<"ǉ", <<"ǈ">>>>, <<"Ǌ", <<"ǋ">>>>, <<"ǌ", <<"ǋ">>>>, <<"ǎ", <<"Ǎ">>>>,
     <<"ǐ", <<"Ǐ">>>>, <<"ǒ", <<"Ǒ">>>>, <<"ǔ", <<"Ǔ">>>>, <<"ǖ", <<"Ǖ">>>>,
     <<"ǘ", <<"Ǘ">>>>, <<"ǚ", <<"Ǚ">>>>, <<"ǜ", <<"Ǜ">>>>, <<"ǝ", <<"Ǝ">>>>,
     <<"ǟ", <<"Ǟ">>>>, <<"ǡ", <<"Ǡ">>>>, <<"ǣ", <<"Ǣ">>>>, <<"ǥ", <<"Ǥ">>>>,
     <<"ǧ", <<"Ǧ">>>>, <<"ǩ", <<"Ǩ">>>>, <<"ǫ", <<"Ǫ">>>>, <<"ǭ", <<"Ǭ">>>>,
     <<"ǯ", <<"Ǯ">>>>, <<"ǰ", <<"J", "U+030C">>>>, <<"Ǳ", <<"ǲ">>>>,
     <<"ǳ", <<"ǲ">>>>, <<"ǵ", <<"Ǵ">>>>, <<"ǹ", <<"Ǹ">>>>, <<"ǻ", <<"Ǻ">>>>,
     <<"ǽ", <<"Ǽ">>>>, <<"ǿ", <<"Ǿ">>>>, <<"U+0201", <<"U+0200">>>>,
     <<"U+0203", <<"U+0202">>>>, <<"U+0205", <<"U+0204">>>>,
     <<"U+0207", <<"U+0206">>>>, <<"U+0209", <<"U+0208">>>>,
     <<"U+020B", <<"U+020A">>>>, <<"U+020D", <<"U+020C">>>>,
     <<"U+020F", <<"U+020E">>>>, <<"U+0211", <<"U+0210">>>>,
     <<"U+0213", <<"U+0212">>>>, <<"U+0215", <<"U+0214">>>>,
     <<"U+0217", <<"U+0216">>>>, <<"U+0219", <<"U+0218">>>>,
     <<"U+021B", <<"U+021A">>>>, <<"U+021D", <<"U+021C">>>>,
     <<"U+021F", <<"U+021E">>>>, <<"U+0223", <<"U+0222">>>>,
     <<"U+0225", <<"U+0224">>>>, <<"U+0227", <<"U+0226">>>>,
     <<"U+0229", <<"U+0228">>>>, <<"U+022B", <<"U+022A">>>>,
     <<"U+022D", <<"U+022C">>>>, <<"U+022F", <<"U+022E">>>>,
     <<"U+0231", <<"U+0230">>>>, <<"U+0233", <<"U+0232">>>>,
     <<"U+023C", <<"U+023B">>>>, <<"U+023F", <<"U+2C7E">>>>,
     <<"U+0240", <<"U+2C7F">>>>, <<"U+0242", <<"U+0241">>>>,
     <<"U+0247", <<"U+0246">>>>, <<"U+0249", <<"U+0248">>>>,
     <<"U+024B", <<"U+024A">>>>, <<"U+024D", <<"U+024C">>>>,
     <<"U+024F", <<"U+024E">>>>, <<"U+0250", <<"U+2C6F">>>>,
     <<"U+0251", <<"U+2C6D">>>>, <<"U+0252", <<"U+2C70">>>>,
     <<"U+0253", <<"Ɓ">>>>, <<"U+0254", <<"Ɔ">>>>, <<"U+0256", <<"Ɖ">>>>,
     <<"U+0257", <<"Ɗ">>>>, <<"U+0259", <<"Ə">>>>, <<"U+025B", <<"Ɛ">>>>,
     <<"U+025C", <<"Ɜ">>>>, <<"U+0260", <<"Ɠ">>>>, <<"U+0261", <<"Ɡ">>>>,
     <<"U+0263", <<"Ɣ">>>>, <<"U+0265", <<"Ɥ">>>>, <<"U+0266", <<"Ɦ">>>>,
     <<"U+0268", <<"Ɨ">>>>, <<"U+0269", <<"Ɩ">>>>, <<"U+026A", <<"Ɪ">>>>,
     <<"U+026B", <<"U+2C62">>>>, <<"U+026C", <<"Ɬ">>>>,
     <<"U+026F", <<"Ɯ">>>>, <<"U+0271", <<"U+2C6E">>>>,
     <<"U+0272", <<"Ɲ">>>>, <<"U+0275", <<"Ɵ">>>>,
     <<"U+027D", <<"U+2C64">>>>, <<"ʀ", <<"Ʀ">>>>, <<"ʂ", <<"Ʂ">>>>,
     <<"ʃ", <<"Ʃ">>>>, <<"ʇ", <<"Ʇ">>>>, <<"ʈ", <<"Ʈ">>>>,
     <<"ʉ", <<"U+0244">>>>, <<"ʊ", <<"Ʊ">>>>, <<"ʋ", <<"Ʋ">>>>,
     <<"ʌ", <<"U+0245">>>>, <<"ʒ", <<"Ʒ">>>>, <<"ʝ", <<"Ʝ">>>>,
     <<"ʞ", <<"Ʞ">>>>, <<"U+0345", <<"Ι">>>>, <<"U+0371", <<"U+0370">>>>,
     <<"U+0373", <<"U+0372">>>>, <<"U+0377", <<"U+0376">>>>,
     <<"U+037B", <<"Ͻ">>>>, <<"U+037C", <<"Ͼ">>>>, <<"U+037D", <<"Ͽ">>>>,
     <<"ΐ", <<"Ι", "U+0308", "U+0301">>>>, <<"ά", <<"Ά">>>>,
     <<"έ", <<"Έ">>>>, <<"ή", <<"Ή">>>>, <<"ί", <<"Ί">>>>,
     <<"ΰ", <<"Υ", "U+0308", "U+0301">>>>, <<"α", <<"Α">>>>,
     <<"β", <<"Β">>>>, <<"γ", <<"Γ">>>>, <<"δ", <<"Δ">>>>, <<"ε", <<"Ε">>>>,
     <<"ζ", <<"Ζ">>>>, <<"η", <<"Η">>>>, <<"θ", <<"Θ">>>>, <<"ι", <<"Ι">>>>,
     <<"κ", <<"Κ">>>>, <<"λ", <<"Λ">>>>, <<"μ", <<"Μ">>>>, <<"ν", <<"Ν">>>>,
     <<"ξ", <<"Ξ">>>>, <<"ο", <<"Ο">>>>, <<"π", <<"Π">>>>, <<"ρ", <<"Ρ">>>>,
     <<"ς", <<"Σ">>>>, <<"σ", <<"Σ">>>>, <<"τ", <<"Τ">>>>, <<"υ", <<"Υ">>>>,
     <<"φ", <<"Φ">>>>, <<"χ", <<"Χ">>>>, <<"ψ", <<"Ψ">>>>, <<"ω", <<"Ω">>>>,
     <<"ϊ", <<"Ϊ">>>>, <<"ϋ", <<"Ϋ">>>>, <<"ό", <<"Ό">>>>, <<"ύ", <<"Ύ">>>>,
     <<"ώ", <<"Ώ">>>>, <<"ϐ", <<"Β">>>>, <<"ϑ", <<"Θ">>>>, <<"ϕ", <<"Φ">>>>,
     <<"ϖ", <<"Π">>>>, <<"ϗ", <<"Ϗ">>>>, <<"ϙ", <<"Ϙ">>>>, <<"ϛ", <<"Ϛ">>>>,
     <<"ϝ", <<"Ϝ">>>>, <<"ϟ", <<"Ϟ">>>>, <<"ϡ", <<"Ϡ">>>>, <<"ϣ", <<"Ϣ">>>>,
     <<"ϥ", <<"Ϥ">>>>, <<"ϧ", <<"Ϧ">>>>, <<"ϩ", <<"Ϩ">>>>, <<"ϫ", <<"Ϫ">>>>,
     <<"ϭ", <<"Ϭ">>>>, <<"ϯ", <<"Ϯ">>>>, <<"ϰ", <<"Κ">>>>, <<"ϱ", <<"Ρ">>>>,
     <<"ϲ", <<"Ϲ">>>>, <<"ϳ", <<"U+037F">>>>, <<"ϵ", <<"Ε">>>>,
     <<"ϸ", <<"Ϸ">>>>, <<"ϻ", <<"Ϻ">>>>, <<"U+0430", <<"U+0410">>>>,
     <<"U+0431", <<"U+0411">>>>, <<"U+0432", <<"U+0412">>>>,
     <<"U+0433", <<"U+0413">>>>, <<"U+0434", <<"U+0414">>>>,
     <<"U+0435", <<"U+0415">>>>, <<"U+0436", <<"U+0416">>>>,
     <<"U+0437", <<"U+0417">>>>, <<"U+0438", <<"U+0418">>>>,
     <<"U+0439", <<"U+0419">>>>, <<"U+043A", <<"U+041A">>>>,
     <<"U+043B", <<"U+041B">>>>, <<"U+043C", <<"U+041C">>>>,
     <<"U+043D", <<"U+041D">>>>, <<"U+043E", <<"U+041E">>>>,
     <<"U+043F", <<"U+041F">>>>, <<"U+0440", <<"U+0420">>>>,
     <<"U+0441", <<"U+0421">>>>, <<"U+0442", <<"U+0422">>>>,
     <<"U+0443", <<"U+0423">>>>, <<"U+0444", <<"U+0424">>>>,
     <<"U+0445", <<"U+0425">>>>, <<"U+0446", <<"U+0426">>>>,
     <<"U+0447", <<"U+0427">>>>, <<"U+0448", <<"U+0428">>>>,
     <<"U+0449", <<"U+0429">>>>, <<"U+044A", <<"U+042A">>>>,
     <<"U+044B", <<"U+042B">>>>, <<"U+044C", <<"U+042C">>>>,
     <<"U+044D", <<"U+042D">>>>, <<"U+044E", <<"U+042E">>>>,
     <<"U+044F", <<"U+042F">>>>, <<"U+0450", <<"U+0400">>>>,
     <<"U+0451", <<"U+0401">>>>, <<"U+0452", <<"U+0402">>>>,
     <<"U+0453", <<"U+0403">>>>, <<"U+0454", <<"U+0404">>>>,
     <<"U+0455", <<"U+0405">>>>, <<"U+0456", <<"U+0406">>>>,
     <<"U+0457", <<"U+0407">>>>, <<"U+0458", <<"U+0408">>>>,
     <<"U+0459", <<"U+0409">>>>, <<"U+045A", <<"U+040A">>>>,
     <<"U+045B", <<"U+040B">>>>, <<"U+045C", <<"U+040C">>>>,
     <<"U+045D", <<"U+040D">>>>, <<"U+045E", <<"U+040E">>>>,
     <<"U+045F", <<"U+040F">>>>, <<"U+0461", <<"U+0460">>>>,
     <<"U+0463", <<"U+0462">>>>, <<"U+0465", <<"U+0464">>>>,
     <<"U+0467", <<"U+0466">>>>, <<"U+0469", <<"U+0468">>>>,
     <<"U+046B", <<"U+046A">>>>, <<"U+046D", <<"U+046C">>>>,
     <<"U+046F", <<"U+046E">>>>, <<"U+0471", <<"U+0470">>>>,
     <<"U+0473", <<"U+0472">>>>, <<"U+0475", <<"U+0474">>>>,
     <<"U+0477", <<"U+0476">>>>, <<"U+0479", <<"U+0478">>>>,
     <<"U+047B", <<"U+047A">>>>, <<"U+047D", <<"U+047C">>>>,
     <<"U+047F", <<"U+047E">>>>, <<"ҁ", <<"Ҁ">>>>, <<"ҋ", <<"Ҋ">>>>,
     <<"ҍ", <<"Ҍ">>>>, <<"ҏ", <<"Ҏ">>>>, <<"ґ", <<"Ґ">>>>, <<"ғ", <<"Ғ">>>>,
     <<"ҕ", <<"Ҕ">>>>, <<"җ", <<"Җ">>>>, <<"ҙ", <<"Ҙ">>>>, <<"қ", <<"Қ">>>>,
     <<"ҝ", <<"Ҝ">>>>, <<"ҟ", <<"Ҟ">>>>, <<"ҡ", <<"Ҡ">>>>, <<"ң", <<"Ң">>>>,
     <<"ҥ", <<"Ҥ">>>>, <<"ҧ", <<"Ҧ">>>>, <<"ҩ", <<"Ҩ">>>>, <<"ҫ", <<"Ҫ">>>>,
     <<"ҭ", <<"Ҭ">>>>, <<"ү", <<"Ү">>>>, <<"ұ", <<"Ұ">>>>, <<"ҳ", <<"Ҳ">>>>,
     <<"ҵ", <<"Ҵ">>>>, <<"ҷ", <<"Ҷ">>>>, <<"ҹ", <<"Ҹ">>>>, <<"һ", <<"Һ">>>>,
     <<"ҽ", <<"Ҽ">>>>, <<"ҿ", <<"Ҿ">>>>, <<"ӂ", <<"Ӂ">>>>, <<"ӄ", <<"Ӄ">>>>,
     <<"ӆ", <<"Ӆ">>>>, <<"ӈ", <<"Ӈ">>>>, <<"ӊ", <<"Ӊ">>>>, <<"ӌ", <<"Ӌ">>>>,
     <<"ӎ", <<"Ӎ">>>>, <<"ӏ", <<"Ӏ">>>>, <<"ӑ", <<"Ӑ">>>>, <<"ӓ", <<"Ӓ">>>>,
     <<"ӕ", <<"Ӕ">>>>, <<"ӗ", <<"Ӗ">>>>, <<"ә", <<"Ә">>>>, <<"ӛ", <<"Ӛ">>>>,
     <<"ӝ", <<"Ӝ">>>>, <<"ӟ", <<"Ӟ">>>>, <<"ӡ", <<"Ӡ">>>>, <<"ӣ", <<"Ӣ">>>>,
     <<"ӥ", <<"Ӥ">>>>, <<"ӧ", <<"Ӧ">>>>, <<"ө", <<"Ө">>>>, <<"ӫ", <<"Ӫ">>>>,
     <<"ӭ", <<"Ӭ">>>>, <<"ӯ", <<"Ӯ">>>>, <<"ӱ", <<"Ӱ">>>>, <<"ӳ", <<"Ӳ">>>>,
     <<"ӵ", <<"Ӵ">>>>, <<"ӷ", <<"Ӷ">>>>, <<"ӹ", <<"Ӹ">>>>, <<"ӻ", <<"Ӻ">>>>,
     <<"ӽ", <<"Ӽ">>>>, <<"ӿ", <<"Ӿ">>>>, <<"U+0501", <<"U+0500">>>>,
     <<"U+0503", <<"U+0502">>>>, <<"U+0505", <<"U+0504">>>>,
     <<"U+0507", <<"U+0506">>>>, <<"U+0509", <<"U+0508">>>>,
     <<"U+050B", <<"U+050A">>>>, <<"U+050D", <<"U+050C">>>>,
     <<"U+050F", <<"U+050E">>>>, <<"U+0511", <<"U+0510">>>>,
     <<"U+0513", <<"U+0512">>>>, <<"U+0515", <<"U+0514">>>>,
     <<"U+0517", <<"U+0516">>>>, <<"U+0519", <<"U+0518">>>>,
     <<"U+051B", <<"U+051A">>>>, <<"U+051D", <<"U+051C">>>>,
     <<"U+051F", <<"U+051E">>>>, <<"U+0521", <<"U+0520">>>>,
     <<"U+0523", <<"U+0522">>>>, <<"U+0525", <<"U+0524">>>>,
     <<"U+0527", <<"U+0526">>>>, <<"U+0529", <<"U+0528">>>>,
     <<"U+052B", <<"U+052A">>>>, <<"U+052D", <<"U+052C">>>>,
     <<"U+052F", <<"U+052E">>>>, <<"U+0561", <<"U+0531">>>>,
     <<"U+0562", <<"U+0532">>>>, <<"U+0563", <<"U+0533">>>>,
     <<"U+0564", <<"U+0534">>>>, <<"U+0565", <<"U+0535">>>>,
     <<"U+0566", <<"U+0536">>>>, <<"U+0567", <<"U+0537">>>>,
     <<"U+0568", <<"U+0538">>>>, <<"U+0569", <<"U+0539">>>>,
     <<"U+056A", <<"U+053A">>>>, <<"U+056B", <<"U+053B">>>>,
     <<"U+056C", <<"U+053C">>>>, <<"U+056D", <<"U+053D">>>>,
     <<"U+056E", <<"U+053E">>>>, <<"U+056F", <<"U+053F">>>>,
     <<"U+0570", <<"U+0540">>>>, <<"U+0571", <<"U+0541">>>>,
     <<"U+0572", <<"U+0542">>>>, <<"U+0573", <<"U+0543">>>>,
     <<"U+0574", <<"U+0544">>>>, <<"U+0575", <<"U+0545">>>>,
     <<"U+0576", <<"U+0546">>>>, <<"U+0577", <<"U+0547">>>>,
     <<"U+0578", <<"U+0548">>>>, <<"U+0579", <<"U+0549">>>>,
     <<"U+057A", <<"U+054A">>>>, <<"U+057B", <<"U+054B">>>>,
     <<"U+057C", <<"U+054C">>>>, <<"U+057D", <<"U+054D">>>>,
     <<"U+057E", <<"U+054E">>>>, <<"U+057F", <<"U+054F">>>>,
     <<"ր", <<"U+0550">>>>, <<"ց", <<"U+0551">>>>, <<"ւ", <<"U+0552">>>>,
     <<"փ", <<"U+0553">>>>, <<"ք", <<"U+0554">>>>, <<"օ", <<"U+0555">>>>,
     <<"ֆ", <<"U+0556">>>>, <<"և", <<"U+0535", "ւ">>>>, <<"ᏸ", <<"Ᏸ">>>>,
     <<"ᏹ", <<"Ᏹ">>>>, <<"ᏺ", <<"Ᏺ">>>>, <<"ᏻ", <<"Ᏻ">>>>, <<"ᏼ", <<"Ᏼ">>>>,
     <<"ᏽ", <<"Ᏽ">>>>, <<"ᲀ", <<"U+0412">>>>, <<"ᲁ", <<"U+0414">>>>,
     <<"ᲂ", <<"U+041E">>>>, <<"ᲃ", <<"U+0421">>>>, <<"ᲄ", <<"U+0422">>>>,
     <<"ᲅ", <<"U+0422">>>>, <<"ᲆ", <<"U+042A">>>>, <<"ᲇ", <<"U+0462">>>>,
     <<"ᲈ", <<"U+A64A">>>>, <<"U+1D79", <<"U+A77D">>>>,
     <<"U+1D7D", <<"U+2C63">>>>, <<"ᶎ", <<"Ᶎ">>>>,
     <<"U+1E01", <<"U+1E00">>>>, <<"U+1E03", <<"U+1E02">>>>,
     <<"U+1E05", <<"U+1E04">>>>, <<"U+1E07", <<"U+1E06">>>>,
     <<"U+1E09", <<"U+1E08">>>>, <<"U+1E0B", <<"U+1E0A">>>>,
     <<"U+1E0D", <<"U+1E0C">>>>, <<"U+1E0F", <<"U+1E0E">>>>,
     <<"U+1E11", <<"U+1E10">>>>, <<"U+1E13", <<"U+1E12">>>>,
     <<"U+1E15", <<"U+1E14">>>>, <<"U+1E17", <<"U+1E16">>>>,
     <<"U+1E19", <<"U+1E18">>>>, <<"U+1E1B", <<"U+1E1A">>>>,
     <<"U+1E1D", <<"U+1E1C">>>>, <<"U+1E1F", <<"U+1E1E">>>>,
     <<"U+1E21", <<"U+1E20">>>>, <<"U+1E23", <<"U+1E22">>>>,
     <<"U+1E25", <<"U+1E24">>>>, <<"U+1E27", <<"U+1E26">>>>,
     <<"U+1E29", <<"U+1E28">>>>, <<"U+1E2B", <<"U+1E2A">>>>,
     <<"U+1E2D", <<"U+1E2C">>>>, <<"U+1E2F", <<"U+1E2E">>>>,
     <<"U+1E31", <<"U+1E30">>>>, <<"U+1E33", <<"U+1E32">>>>,
     <<"U+1E35", <<"U+1E34">>>>, <<"U+1E37", <<"U+1E36">>>>,
     <<"U+1E39", <<"U+1E38">>>>, <<"U+1E3B", <<"U+1E3A">>>>,
     <<"U+1E3D", <<"U+1E3C">>>>, <<"U+1E3F", <<"U+1E3E">>>>,
     <<"U+1E41", <<"U+1E40">>>>, <<"U+1E43", <<"U+1E42">>>>,
     <<"U+1E45", <<"U+1E44">>>>, <<"U+1E47", <<"U+1E46">>>>,
     <<"U+1E49", <<"U+1E48">>>>, <<"U+1E4B", <<"U+1E4A">>>>,
     <<"U+1E4D", <<"U+1E4C">>>>, <<"U+1E4F", <<"U+1E4E">>>>,
     <<"U+1E51", <<"U+1E50">>>>, <<"U+1E53", <<"U+1E52">>>>,
     <<"U+1E55", <<"U+1E54">>>>, <<"U+1E57", <<"U+1E56">>>>,
     <<"U+1E59", <<"U+1E58">>>>, <<"U+1E5B", <<"U+1E5A">>>>,
     <<"U+1E5D", <<"U+1E5C">>>>, <<"U+1E5F", <<"U+1E5E">>>>,
     <<"U+1E61", <<"U+1E60">>>>, <<"U+1E63", <<"U+1E62">>>>,
     <<"U+1E65", <<"U+1E64">>>>, <<"U+1E67", <<"U+1E66">>>>,
     <<"U+1E69", <<"U+1E68">>>>, <<"U+1E6B", <<"U+1E6A">>>>,
     <<"U+1E6D", <<"U+1E6C">>>>, <<"U+1E6F", <<"U+1E6E">>>>,
     <<"U+1E71", <<"U+1E70">>>>, <<"U+1E73", <<"U+1E72">>>>,
     <<"U+1E75", <<"U+1E74">>>>, <<"U+1E77", <<"U+1E76">>>>,
     <<"U+1E79", <<"U+1E78">>>>, <<"U+1E7B", <<"U+1E7A">>>>,
     <<"U+1E7D", <<"U+1E7C">>>>, <<"U+1E7F", <<"U+1E7E">>>>,
     <<"ẁ", <<"Ẁ">>>>, <<"ẃ", <<"Ẃ">>>>, <<"ẅ", <<"Ẅ">>>>, <<"ẇ", <<"Ẇ">>>>,
     <<"ẉ", <<"Ẉ">>>>, <<"ẋ", <<"Ẋ">>>>, <<"ẍ", <<"Ẍ">>>>, <<"ẏ", <<"Ẏ">>>>,
     <<"ẑ", <<"Ẑ">>>>, <<"ẓ", <<"Ẓ">>>>, <<"ẕ", <<"Ẕ">>>>,
     <<"ẖ", <<"H", "U+0331">>>>, <<"ẗ", <<"T", "U+0308">>>>,
     <<"ẘ", <<"W", "U+030A">>>>, <<"ẙ", <<"Y", "U+030A">>>>,
     <<"ẚ", <<"A", "ʾ">>>>, <<"ẛ", <<"U+1E60">>>>, <<"ạ", <<"Ạ">>>>,
     <<"ả", <<"Ả">>>>, <<"ấ", <<"Ấ">>>>, <<"ầ", <<"Ầ">>>>, <<"ẩ", <<"Ẩ">>>>,
     <<"ẫ", <<"Ẫ">>>>, <<"ậ", <<"Ậ">>>>, <<"ắ", <<"Ắ">>>>, <<"ằ", <<"Ằ">>>>,
     <<"ẳ", <<"Ẳ">>>>, <<"ẵ", <<"Ẵ">>>>, <<"ặ", <<"Ặ">>>>, <<"ẹ", <<"Ẹ">>>>,
     <<"ẻ", <<"Ẻ">>>>, <<"ẽ", <<"Ẽ">>>>, <<"ế", <<"Ế">>>>, <<"ề", <<"Ề">>>>,
     <<"ể", <<"Ể">>>>, <<"ễ", <<"Ễ">>>>, <<"ệ", <<"Ệ">>>>, <<"ỉ", <<"Ỉ">>>>,
     <<"ị", <<"Ị">>>>, <<"ọ", <<"Ọ">>>>, <<"ỏ", <<"Ỏ">>>>, <<"ố", <<"Ố">>>>,
     <<"ồ", <<"Ồ">>>>, <<"ổ", <<"Ổ">>>>, <<"ỗ", <<"Ỗ">>>>, <<"ộ", <<"Ộ">>>>,
     <<"ớ", <<"Ớ">>>>, <<"ờ", <<"Ờ">>>>, <<"ở", <<"Ở">>>>, <<"ỡ", <<"Ỡ">>>>,
     <<"ợ", <<"Ợ">>>>, <<"ụ", <<"Ụ">>>>, <<"ủ", <<"Ủ">>>>, <<"ứ", <<"Ứ">>>>,
     <<"ừ", <<"Ừ">>>>, <<"ử", <<"Ử">>>>, <<"ữ", <<"Ữ">>>>, <<"ự", <<"Ự">>>>,
     <<"ỳ", <<"Ỳ">>>>, <<"ỵ", <<"Ỵ">>>>, <<"ỷ", <<"Ỷ">>>>, <<"ỹ", <<"Ỹ">>>>,
     <<"ỻ", <<"Ỻ">>>>, <<"ỽ", <<"Ỽ">>>>, <<"ỿ", <<"Ỿ">>>>,
     <<"U+1F00", <<"U+1F08">>>>, <<"U+1F01", <<"U+1F09">>>>,
     <<"U+1F02", <<"U+1F0A">>>>, <<"U+1F03", <<"U+1F0B">>>>,
     <<"U+1F04", <<"U+1F0C">>>>, <<"U+1F05", <<"U+1F0D">>>>,
     <<"U+1F06", <<"U+1F0E">>>>, <<"U+1F07", <<"U+1F0F">>>>,
     <<"U+1F10", <<"U+1F18">>>>, <<"U+1F11", <<"U+1F19">>>>,
     <<"U+1F12", <<"U+1F1A">>>>, <<"U+1F13", <<"U+1F1B">>>>,
     <<"U+1F14", <<"U+1F1C">>>>, <<"U+1F15", <<"U+1F1D">>>>,
     <<"U+1F20", <<"U+1F28">>>>, <<"U+1F21", <<"U+1F29">>>>,
     <<"U+1F22", <<"U+1F2A">>>>, <<"U+1F23", <<"U+1F2B">>>>,
     <<"U+1F24", <<"U+1F2C">>>>, <<"U+1F25", <<"U+1F2D">>>>,
     <<"U+1F26", <<"U+1F2E">>>>, <<"U+1F27", <<"U+1F2F">>>>,
     <<"U+1F30", <<"U+1F38">>>>, <<"U+1F31", <<"U+1F39">>>>,
     <<"U+1F32", <<"U+1F3A">>>>, <<"U+1F33", <<"U+1F3B">>>>,
     <<"U+1F34", <<"U+1F3C">>>>, <<"U+1F35", <<"U+1F3D">>>>,
     <<"U+1F36", <<"U+1F3E">>>>, <<"U+1F37", <<"U+1F3F">>>>,
     <<"U+1F40", <<"U+1F48">>>>, <<"U+1F41", <<"U+1F49">>>>,
     <<"U+1F42", <<"U+1F4A">>>>, <<"U+1F43", <<"U+1F4B">>>>,
     <<"U+1F44", <<"U+1F4C">>>>, <<"U+1F45", <<"U+1F4D">>>>,
     <<"U+1F50", <<"Υ", "U+0313">>>>, <<"U+1F51", <<"U+1F59">>>>,
     <<"U+1F52", <<"Υ", "U+0313", "U+0300">>>>, <<"U+1F53", <<"U+1F5B">>>>,
     <<"U+1F54", <<"Υ", "U+0313", "U+0301">>>>, <<"U+1F55", <<"U+1F5D">>>>,
     <<"U+1F56", <<"Υ", "U+0313", "U+0342">>>>, <<"U+1F57", <<"U+1F5F">>>>,
     <<"U+1F60", <<"U+1F68">>>>, <<"U+1F61", <<"U+1F69">>>>,
     <<"U+1F62", <<"U+1F6A">>>>, <<"U+1F63", <<"U+1F6B">>>>,
     <<"U+1F64", <<"U+1F6C">>>>, <<"U+1F65", <<"U+1F6D">>>>,
     <<"U+1F66", <<"U+1F6E">>>>, <<"U+1F67", <<"U+1F6F">>>>,
     <<"U+1F70", <<"Ὰ">>>>, <<"U+1F71", <<"Ά">>>>, <<"U+1F72", <<"Ὲ">>>>,
     <<"U+1F73", <<"Έ">>>>, <<"U+1F74", <<"Ὴ">>>>, <<"U+1F75", <<"Ή">>>>,
     <<"U+1F76", <<"Ὶ">>>>, <<"U+1F77", <<"Ί">>>>, <<"U+1F78", <<"Ὸ">>>>,
     <<"U+1F79", <<"Ό">>>>, <<"U+1F7A", <<"Ὺ">>>>, <<"U+1F7B", <<"Ύ">>>>,
     <<"U+1F7C", <<"Ὼ">>>>, <<"U+1F7D", <<"Ώ">>>>, <<"ᾀ", <<"ᾈ">>>>,
     <<"ᾁ", <<"ᾉ">>>>, <<"ᾂ", <<"ᾊ">>>>, <<"ᾃ", <<"ᾋ">>>>, <<"ᾄ", <<"ᾌ">>>>,
     <<"ᾅ", <<"ᾍ">>>>, <<"ᾆ", <<"ᾎ">>>>, <<"ᾇ", <<"ᾏ">>>>, <<"ᾐ", <<"ᾘ">>>>,
     <<"ᾑ", <<"ᾙ">>>>, <<"ᾒ", <<"ᾚ">>>>, <<"ᾓ", <<"ᾛ">>>>, <<"ᾔ", <<"ᾜ">>>>,
     <<"ᾕ", <<"ᾝ">>>>, <<"ᾖ", <<"ᾞ">>>>, <<"ᾗ", <<"ᾟ">>>>, <<"ᾠ", <<"ᾨ">>>>,
     <<"ᾡ", <<"ᾩ">>>>, <<"ᾢ", <<"ᾪ">>>>, <<"ᾣ", <<"ᾫ">>>>, <<"ᾤ", <<"ᾬ">>>>,
     <<"ᾥ", <<"ᾭ">>>>, <<"ᾦ", <<"ᾮ">>>>, <<"ᾧ", <<"ᾯ">>>>, <<"ᾰ", <<"Ᾰ">>>>,
     <<"ᾱ", <<"Ᾱ">>>>, <<"ᾲ", <<"Ὰ", "U+0345">>>>, <<"ᾳ", <<"ᾼ">>>>,
     <<"ᾴ", <<"Ά", "U+0345">>>>, <<"ᾶ", <<"Α", "U+0342">>>>,
     <<"ᾷ", <<"Α", "U+0342", "U+0345">>>>, <<"ι", <<"Ι">>>>,
     <<"ῂ", <<"Ὴ", "U+0345">>>>, <<"ῃ", <<"ῌ">>>>,
     <<"ῄ", <<"Ή", "U+0345">>>>, <<"ῆ", <<"Η", "U+0342">>>>,
     <<"ῇ", <<"Η", "U+0342", "U+0345">>>>, <<"ῐ", <<"Ῐ">>>>,
     <<"ῑ", <<"Ῑ">>>>, <<"ῒ", <<"Ι", "U+0308", "U+0300">>>>,
     <<"ΐ", <<"Ι", "U+0308", "U+0301">>>>, <<"ῖ", <<"Ι", "U+0342">>>>,
     <<"ῗ", <<"Ι", "U+0308", "U+0342">>>>, <<"ῠ", <<"Ῠ">>>>,
     <<"ῡ", <<"Ῡ">>>>, <<"ῢ", <<"Υ", "U+0308", "U+0300">>>>,
     <<"ΰ", <<"Υ", "U+0308", "U+0301">>>>, <<"ῤ", <<"Ρ", "U+0313">>>>,
     <<"ῥ", <<"Ῥ">>>>, <<"ῦ", <<"Υ", "U+0342">>>>,
     <<"ῧ", <<"Υ", "U+0308", "U+0342">>>>, <<"ῲ", <<"Ὼ", "U+0345">>>>,
     <<"ῳ", <<"ῼ">>>>, <<"ῴ", <<"Ώ", "U+0345">>>>,
     <<"ῶ", <<"Ω", "U+0342">>>>, <<"ῷ", <<"Ω", "U+0342", "U+0345">>>>,
     <<"U+214E", <<"U+2132">>>>, <<"U+2170", <<"U+2160">>>>,
     <<"U+2171", <<"U+2161">>>>, <<"U+2172", <<"U+2162">>>>,
     <<"U+2173", <<"U+2163">>>>, <<"U+2174", <<"U+2164">>>>,
     <<"U+2175", <<"U+2165">>>>, <<"U+2176", <<"U+2166">>>>,
     <<"U+2177", <<"U+2167">>>>, <<"U+2178", <<"U+2168">>>>,
     <<"U+2179", <<"U+2169">>>>, <<"U+217A", <<"U+216A">>>>,
     <<"U+217B", <<"U+216B">>>>, <<"U+217C", <<"U+216C">>>>,
     <<"U+217D", <<"U+216D">>>>, <<"U+217E", <<"U+216E">>>>,
     <<"U+217F", <<"U+216F">>>>, <<"ↄ", <<"Ↄ">>>>, <<"ⓐ", <<"Ⓐ">>>>,
     <<"ⓑ", <<"Ⓑ">>>>, <<"ⓒ", <<"Ⓒ">>>>, <<"ⓓ", <<"Ⓓ">>>>, <<"ⓔ", <<"Ⓔ">>>>,
     <<"ⓕ", <<"Ⓕ">>>>, <<"ⓖ", <<"Ⓖ">>>>, <<"ⓗ", <<"Ⓗ">>>>, <<"ⓘ", <<"Ⓘ">>>>,
     <<"ⓙ", <<"Ⓙ">>>>, <<"ⓚ", <<"Ⓚ">>>>, <<"ⓛ", <<"Ⓛ">>>>, <<"ⓜ", <<"Ⓜ">>>>,
     <<"ⓝ", <<"Ⓝ">>>>, <<"ⓞ", <<"Ⓞ">>>>, <<"ⓟ", <<"Ⓟ">>>>, <<"ⓠ", <<"Ⓠ">>>>,
     <<"ⓡ", <<"Ⓡ">>>>, <<"ⓢ", <<"Ⓢ">>>>, <<"ⓣ", <<"Ⓣ">>>>, <<"ⓤ", <<"Ⓤ">>>>,
     <<"ⓥ", <<"Ⓥ">>>>, <<"ⓦ", <<"Ⓦ">>>>, <<"ⓧ", <<"Ⓧ">>>>, <<"ⓨ", <<"Ⓨ">>>>,
     <<"ⓩ", <<"Ⓩ">>>>, <<"U+2C30", <<"U+2C00">>>>,
     <<"U+2C31", <<"U+2C01">>>>, <<"U+2C32", <<"U+2C02">>>>,
     <<"U+2C33", <<"U+2C03">>>>, <<"U+2C34", <<"U+2C04">>>>,
     <<"U+2C35", <<"U+2C05">>>>, <<"U+2C36", <<"U+2C06">>>>,
     <<"U+2C37", <<"U+2C07">>>>, <<"U+2C38", <<"U+2C08">>>>,
     <<"U+2C39", <<"U+2C09">>>>, <<"U+2C3A", <<"U+2C0A">>>>,
     <<"U+2C3B", <<"U+2C0B">>>>, <<"U+2C3C", <<"U+2C0C">>>>,
     <<"U+2C3D", <<"U+2C0D">>>>, <<"U+2C3E", <<"U+2C0E">>>>,
     <<"U+2C3F", <<"U+2C0F">>>>, <<"U+2C40", <<"U+2C10">>>>,
     <<"U+2C41", <<"U+2C11">>>>, <<"U+2C42", <<"U+2C12">>>>,
     <<"U+2C43", <<"U+2C13">>>>, <<"U+2C44", <<"U+2C14">>>>,
     <<"U+2C45", <<"U+2C15">>>>, <<"U+2C46", <<"U+2C16">>>>,
     <<"U+2C47", <<"U+2C17">>>>, <<"U+2C48", <<"U+2C18">>>>,
     <<"U+2C49", <<"U+2C19">>>>, <<"U+2C4A", <<"U+2C1A">>>>,
     <<"U+2C4B", <<"U+2C1B">>>>, <<"U+2C4C", <<"U+2C1C">>>>,
     <<"U+2C4D", <<"U+2C1D">>>>, <<"U+2C4E", <<"U+2C1E">>>>,
     <<"U+2C4F", <<"U+2C1F">>>>, <<"U+2C50", <<"U+2C20">>>>,
     <<"U+2C51", <<"U+2C21">>>>, <<"U+2C52", <<"U+2C22">>>>,
     <<"U+2C53", <<"U+2C23">>>>, <<"U+2C54", <<"U+2C24">>>>,
     <<"U+2C55", <<"U+2C25">>>>, <<"U+2C56", <<"U+2C26">>>>,
     <<"U+2C57", <<"U+2C27">>>>, <<"U+2C58", <<"U+2C28">>>>,
     <<"U+2C59", <<"U+2C29">>>>, <<"U+2C5A", <<"U+2C2A">>>>,
     <<"U+2C5B", <<"U+2C2B">>>>, <<"U+2C5C", <<"U+2C2C">>>>,
     <<"U+2C5D", <<"U+2C2D">>>>, <<"U+2C5E", <<"U+2C2E">>>>,
     <<"U+2C5F", <<"U+2C2F">>>>, <<"U+2C61", <<"U+2C60">>>>,
     <<"U+2C65", <<"U+023A">>>>, <<"U+2C66", <<"U+023E">>>>,
     <<"U+2C68", <<"U+2C67">>>>, <<"U+2C6A", <<"U+2C69">>>>,
     <<"U+2C6C", <<"U+2C6B">>>>, <<"U+2C73", <<"U+2C72">>>>,
     <<"U+2C76", <<"U+2C75">>>>, <<"ⲁ", <<"Ⲁ">>>>, <<"ⲃ", <<"Ⲃ">>>>,
     <<"ⲅ", <<"Ⲅ">>>>, <<"ⲇ", <<"Ⲇ">>>>, <<"ⲉ", <<"Ⲉ">>>>, <<"ⲋ", <<"Ⲋ">>>>,
     <<"ⲍ", <<"Ⲍ">>>>, <<"ⲏ", <<"Ⲏ">>>>, <<"ⲑ", <<"Ⲑ">>>>, <<"ⲓ", <<"Ⲓ">>>>,
     <<"ⲕ", <<"Ⲕ">>>>, <<"ⲗ", <<"Ⲗ">>>>, <<"ⲙ", <<"Ⲙ">>>>, <<"ⲛ", <<"Ⲛ">>>>,
     <<"ⲝ", <<"Ⲝ">>>>, <<"ⲟ", <<"Ⲟ">>>>, <<"ⲡ", <<"Ⲡ">>>>, <<"ⲣ", <<"Ⲣ">>>>,
     <<"ⲥ", <<"Ⲥ">>>>, <<"ⲧ", <<"Ⲧ">>>>, <<"ⲩ", <<"Ⲩ">>>>, <<"ⲫ", <<"Ⲫ">>>>,
     <<"ⲭ", <<"Ⲭ">>>>, <<"ⲯ", <<"Ⲯ">>>>, <<"ⲱ", <<"Ⲱ">>>>, <<"ⲳ", <<"Ⲳ">>>>,
     <<"ⲵ", <<"Ⲵ">>>>, <<"ⲷ", <<"Ⲷ">>>>, <<"ⲹ", <<"Ⲹ">>>>, <<"ⲻ", <<"Ⲻ">>>>,
     <<"ⲽ", <<"Ⲽ">>>>, <<"ⲿ", <<"Ⲿ">>>>, <<"ⳁ", <<"Ⳁ">>>>, <<"ⳃ", <<"Ⳃ">>>>,
     <<"ⳅ", <<"Ⳅ">>>>, <<"ⳇ", <<"Ⳇ">>>>, <<"ⳉ", <<"Ⳉ">>>>, <<"ⳋ", <<"Ⳋ">>>>,
     <<"ⳍ", <<"Ⳍ">>>>, <<"ⳏ", <<"Ⳏ">>>>, <<"ⳑ", <<"Ⳑ">>>>, <<"ⳓ", <<"Ⳓ">>>>,
     <<"ⳕ", <<"Ⳕ">>>>, <<"ⳗ", <<"Ⳗ">>>>, <<"ⳙ", <<"Ⳙ">>>>, <<"ⳛ", <<"Ⳛ">>>>,
     <<"ⳝ", <<"Ⳝ">>>>, <<"ⳟ", <<"Ⳟ">>>>, <<"ⳡ", <<"Ⳡ">>>>, <<"ⳣ", <<"Ⳣ">>>>,
     <<"ⳬ", <<"Ⳬ">>>>, <<"ⳮ", <<"Ⳮ">>>>, <<"ⳳ", <<"Ⳳ">>>>,
     <<"U+2D00", <<"Ⴀ">>>>, <<"U+2D01", <<"Ⴁ">>>>, <<"U+2D02", <<"Ⴂ">>>>,
     <<"U+2D03", <<"Ⴃ">>>>, <<"U+2D04", <<"Ⴄ">>>>, <<"U+2D05", <<"Ⴅ">>>>,
     <<"U+2D06", <<"Ⴆ">>>>, <<"U+2D07", <<"Ⴇ">>>>, <<"U+2D08", <<"Ⴈ">>>>,
     <<"U+2D09", <<"Ⴉ">>>>, <<"U+2D0A", <<"Ⴊ">>>>, <<"U+2D0B", <<"Ⴋ">>>>,
     <<"U+2D0C", <<"Ⴌ">>>>, <<"U+2D0D", <<"Ⴍ">>>>, <<"U+2D0E", <<"Ⴎ">>>>,
     <<"U+2D0F", <<"Ⴏ">>>>, <<"U+2D10", <<"Ⴐ">>>>, <<"U+2D11", <<"Ⴑ">>>>,
     <<"U+2D12", <<"Ⴒ">>>>, <<"U+2D13", <<"Ⴓ">>>>, <<"U+2D14", <<"Ⴔ">>>>,
     <<"U+2D15", <<"Ⴕ">>>>, <<"U+2D16", <<"Ⴖ">>>>, <<"U+2D17", <<"Ⴗ">>>>,
     <<"U+2D18", <<"Ⴘ">>>>, <<"U+2D19", <<"Ⴙ">>>>, <<"U+2D1A", <<"Ⴚ">>>>,
     <<"U+2D1B", <<"Ⴛ">>>>, <<"U+2D1C", <<"Ⴜ">>>>, <<"U+2D1D", <<"Ⴝ">>>>,
     <<"U+2D1E", <<"Ⴞ">>>>, <<"U+2D1F", <<"Ⴟ">>>>, <<"U+2D20", <<"Ⴠ">>>>,
     <<"U+2D21", <<"Ⴡ">>>>, <<"U+2D22", <<"Ⴢ">>>>, <<"U+2D23", <<"Ⴣ">>>>,
     <<"U+2D24", <<"Ⴤ">>>>, <<"U+2D25", <<"Ⴥ">>>>, <<"U+2D27", <<"Ⴧ">>>>,
     <<"U+2D2D", <<"Ⴭ">>>>, <<"U+A641", <<"U+A640">>>>,
     <<"U+A643", <<"U+A642">>>>, <<"U+A645", <<"U+A644">>>>,
     <<"U+A647", <<"U+A646">>>>, <<"U+A649", <<"U+A648">>>>,
     <<"U+A64B", <<"U+A64A">>>>, <<"U+A64D", <<"U+A64C">>>>,
     <<"U+A64F", <<"U+A64E">>>>, <<"U+A651", <<"U+A650">>>>,
     <<"U+A653", <<"U+A652">>>>, <<"U+A655", <<"U+A654">>>>,
     <<"U+A657", <<"U+A656">>>>, <<"U+A659", <<"U+A658">>>>,
     <<"U+A65B", <<"U+A65A">>>>, <<"U+A65D", <<"U+A65C">>>>,
     <<"U+A65F", <<"U+A65E">>>>, <<"U+A661", <<"U+A660">>>>,
     <<"U+A663", <<"U+A662">>>>, <<"U+A665", <<"U+A664">>>>,
     <<"U+A667", <<"U+A666">>>>, <<"U+A669", <<"U+A668">>>>,
     <<"U+A66B", <<"U+A66A">>>>, <<"U+A66D", <<"U+A66C">>>>,
     <<"ꚁ", <<"Ꚁ">>>>, <<"ꚃ", <<"Ꚃ">>>>, <<"ꚅ", <<"Ꚅ">>>>, <<"ꚇ", <<"Ꚇ">>>>,
     <<"ꚉ", <<"Ꚉ">>>>, <<"ꚋ", <<"Ꚋ">>>>, <<"ꚍ", <<"Ꚍ">>>>, <<"ꚏ", <<"Ꚏ">>>>,
     <<"ꚑ", <<"Ꚑ">>>>, <<"ꚓ", <<"Ꚓ">>>>, <<"ꚕ", <<"Ꚕ">>>>, <<"ꚗ", <<"Ꚗ">>>>,
     <<"ꚙ", <<"Ꚙ">>>>, <<"ꚛ", <<"Ꚛ">>>>, <<"U+A723", <<"U+A722">>>>,
     <<"U+A725", <<"U+A724">>>>, <<"U+A727", <<"U+A726">>>>,
     <<"U+A729", <<"U+A728">>>>, <<"U+A72B", <<"U+A72A">>>>,
     <<"U+A72D", <<"U+A72C">>>>, <<"U+A72F", <<"U+A72E">>>>,
     <<"U+A733", <<"U+A732">>>>, <<"U+A735", <<"U+A734">>>>,
     <<"U+A737", <<"U+A736">>>>, <<"U+A739", <<"U+A738">>>>,
     <<"U+A73B", <<"U+A73A">>>>, <<"U+A73D", <<"U+A73C">>>>,
     <<"U+A73F", <<"U+A73E">>>>, <<"U+A741", <<"U+A740">>>>,
     <<"U+A743", <<"U+A742">>>>, <<"U+A745", <<"U+A744">>>>,
     <<"U+A747", <<"U+A746">>>>, <<"U+A749", <<"U+A748">>>>,
     <<"U+A74B", <<"U+A74A">>>>, <<"U+A74D", <<"U+A74C">>>>,
     <<"U+A74F", <<"U+A74E">>>>, <<"U+A751", <<"U+A750">>>>,
     <<"U+A753", <<"U+A752">>>>, <<"U+A755", <<"U+A754">>>>,
     <<"U+A757", <<"U+A756">>>>, <<"U+A759", <<"U+A758">>>>,
     <<"U+A75B", <<"U+A75A">>>>, <<"U+A75D", <<"U+A75C">>>>,
     <<"U+A75F", <<"U+A75E">>>>, <<"U+A761", <<"U+A760">>>>,
     <<"U+A763", <<"U+A762">>>>, <<"U+A765", <<"U+A764">>>>,
     <<"U+A767", <<"U+A766">>>>, <<"U+A769", <<"U+A768">>>>,
     <<"U+A76B", <<"U+A76A">>>>, <<"U+A76D", <<"U+A76C">>>>,
     <<"U+A76F", <<"U+A76E">>>>, <<"U+A77A", <<"U+A779">>>>,
     <<"U+A77C", <<"U+A77B">>>>, <<"U+A77F", <<"U+A77E">>>>,
     <<"ꞁ", <<"Ꞁ">>>>, <<"ꞃ", <<"Ꞃ">>>>, <<"ꞅ", <<"Ꞅ">>>>, <<"ꞇ", <<"Ꞇ">>>>,
     <<"ꞌ", <<"Ꞌ">>>>, <<"ꞑ", <<"Ꞑ">>>>, <<"ꞓ", <<"Ꞓ">>>>, <<"ꞔ", <<"Ꞔ">>>>,
     <<"ꞗ", <<"Ꞗ">>>>, <<"ꞙ", <<"Ꞙ">>>>, <<"ꞛ", <<"Ꞛ">>>>, <<"ꞝ", <<"Ꞝ">>>>,
     <<"ꞟ", <<"Ꞟ">>>>, <<"ꞡ", <<"Ꞡ">>>>, <<"ꞣ", <<"Ꞣ">>>>, <<"ꞥ", <<"Ꞥ">>>>,
     <<"ꞧ", <<"Ꞧ">>>>, <<"ꞩ", <<"Ꞩ">>>>, <<"ꞵ", <<"Ꞵ">>>>, <<"ꞷ", <<"Ꞷ">>>>,
     <<"ꞹ", <<"Ꞹ">>>>, <<"ꞻ", <<"Ꞻ">>>>, <<"ꞽ", <<"Ꞽ">>>>, <<"ꞿ", <<"Ꞿ">>>>,
     <<"ꟁ", <<"Ꟁ">>>>, <<"ꟃ", <<"Ꟃ">>>>, <<"ꟈ", <<"Ꟈ">>>>, <<"ꟊ", <<"Ꟊ">>>>,
     <<"ꟑ", <<"Ꟑ">>>>, <<"ꟗ", <<"Ꟗ">>>>, <<"ꟙ", <<"Ꟙ">>>>, <<"ꟶ", <<"Ꟶ">>>>,
     <<"U+AB53", <<"Ꭓ">>>>, <<"U+AB70", <<"Ꭰ">>>>, <<"U+AB71", <<"Ꭱ">>>>,
     <<"U+AB72", <<"Ꭲ">>>>, <<"U+AB73", <<"Ꭳ">>>>, <<"U+AB74", <<"Ꭴ">>>>,
     <<"U+AB75", <<"Ꭵ">>>>, <<"U+AB76", <<"Ꭶ">>>>, <<"U+AB77", <<"Ꭷ">>>>,
     <<"U+AB78", <<"Ꭸ">>>>, <<"U+AB79", <<"Ꭹ">>>>, <<"U+AB7A", <<"Ꭺ">>>>,
     <<"U+AB7B", <<"Ꭻ">>>>, <<"U+AB7C", <<"Ꭼ">>>>, <<"U+AB7D", <<"Ꭽ">>>>,
     <<"U+AB7E", <<"Ꭾ">>>>, <<"U+AB7F", <<"Ꭿ">>>>, <<"ꮀ", <<"Ꮀ">>>>,
     <<"ꮁ", <<"Ꮁ">>>>, <<"ꮂ", <<"Ꮂ">>>>, <<"ꮃ", <<"Ꮃ">>>>, <<"ꮄ", <<"Ꮄ">>>>,
     <<"ꮅ", <<"Ꮅ">>>>, <<"ꮆ", <<"Ꮆ">>>>, <<"ꮇ", <<"Ꮇ">>>>, <<"ꮈ", <<"Ꮈ">>>>,
     <<"ꮉ", <<"Ꮉ">>>>, <<"ꮊ", <<"Ꮊ">>>>, <<"ꮋ", <<"Ꮋ">>>>, <<"ꮌ", <<"Ꮌ">>>>,
     <<"ꮍ", <<"Ꮍ">>>>, <<"ꮎ", <<"Ꮎ">>>>, <<"ꮏ", <<"Ꮏ">>>>, <<"ꮐ", <<"Ꮐ">>>>,
     <<"ꮑ", <<"Ꮑ">>>>, <<"ꮒ", <<"Ꮒ">>>>, <<"ꮓ", <<"Ꮓ">>>>, <<"ꮔ", <<"Ꮔ">>>>,
     <<"ꮕ", <<"Ꮕ">>>>, <<"ꮖ", <<"Ꮖ">>>>, <<"ꮗ", <<"Ꮗ">>>>, <<"ꮘ", <<"Ꮘ">>>>,
     <<"ꮙ", <<"Ꮙ">>>>, <<"ꮚ", <<"Ꮚ">>>>, <<"ꮛ", <<"Ꮛ">>>>, <<"ꮜ", <<"Ꮜ">>>>,
     <<"ꮝ", <<"Ꮝ">>>>, <<"ꮞ", <<"Ꮞ">>>>, <<"ꮟ", <<"Ꮟ">>>>, <<"ꮠ", <<"Ꮠ">>>>,
     <<"ꮡ", <<"Ꮡ">>>>, <<"ꮢ", <<"Ꮢ">>>>, <<"ꮣ", <<"Ꮣ">>>>, <<"ꮤ", <<"Ꮤ">>>>,
     <<"ꮥ", <<"Ꮥ">>>>, <<"ꮦ", <<"Ꮦ">>>>, <<"ꮧ", <<"Ꮧ">>>>, <<"ꮨ", <<"Ꮨ">>>>,
     <<"ꮩ", <<"Ꮩ">>>>, <<"ꮪ", <<"Ꮪ">>>>, <<"ꮫ", <<"Ꮫ">>>>, <<"ꮬ", <<"Ꮬ">>>>,
     <<"ꮭ", <<"Ꮭ">>>>, <<"ꮮ", <<"Ꮮ">>>>, <<"ꮯ", <<"Ꮯ">>>>, <<"ꮰ", <<"Ꮰ">>>>,
     <<"ꮱ", <<"Ꮱ">>>>, <<"ꮲ", <<"Ꮲ">>>>, <<"ꮳ", <<"Ꮳ">>>>, <<"ꮴ", <<"Ꮴ">>>>,
     <<"ꮵ", <<"Ꮵ">>>>, <<"ꮶ", <<"Ꮶ">>>>, <<"ꮷ", <<"Ꮷ">>>>, <<"ꮸ", <<"Ꮸ">>>>,
     <<"ꮹ", <<"Ꮹ">>>>, <<"ꮺ", <<"Ꮺ">>>>, <<"ꮻ", <<"Ꮻ">>>>, <<"ꮼ", <<"Ꮼ">>>>,
     <<"ꮽ", <<"Ꮽ">>>>, <<"ꮾ", <<"Ꮾ">>>>, <<"ꮿ", <<"Ꮿ">>>>,
     <<"U+FB00", <<"F", "f">>>>, <<"U+FB01", <<"F", "i">>>>,
     <<"U+FB02", <<"F", "l">>>>, <<"U+FB03", <<"F", "f", "i">>>>,
     <<"U+FB04", <<"F", "f", "l">>>>, <<"U+FB05", <<"S", "t">>>>,
     <<"U+FB06", <<"S", "t">>>>, <<"U+FB13", <<"U+0544", "U+0576">>>>,
     <<"U+FB14", <<"U+0544", "U+0565">>>>,
     <<"U+FB15", <<"U+0544", "U+056B">>>>,
     <<"U+FB16", <<"U+054E", "U+0576">>>>,
     <<"U+FB17", <<"U+0544", "U+056D">>>>, <<"U+FF41", <<"U+FF21">>>>,
     <<"U+FF42", <<"U+FF22">>>>, <<"U+FF43", <<"U+FF23">>>>,
     <<"U+FF44", <<"U+FF24">>>>, <<"U+FF45", <<"U+FF25">>>>,
     <<"U+FF46", <<"U+FF26">>>>, <<"U+FF47", <<"U+FF27">>>>,
     <<"U+FF48", <<"U+FF28">>>>, <<"U+FF49", <<"U+FF29">>>>,
     <<"U+FF4A", <<"U+FF2A">>>>, <<"U+FF4B", <<"U+FF2B">>>>,
     <<"U+FF4C", <<"U+FF2C">>>>, <<"U+FF4D", <<"U+FF2D">>>>,
     <<"U+FF4E", <<"U+FF2E">>>>, <<"U+FF4F", <<"U+FF2F">>>>,
     <<"U+FF50", <<"U+FF30">>>>, <<"U+FF51", <<"U+FF31">>>>,
     <<"U+FF52", <<"U+FF32">>>>, <<"U+FF53", <<"U+FF33">>>>,
     <<"U+FF54", <<"U+FF34">>>>, <<"U+FF55", <<"U+FF35">>>>,
     <<"U+FF56", <<"U+FF36">>>>, <<"U+FF57", <<"U+FF37">>>>,
     <<"U+FF58", <<"U+FF38">>>>, <<"U+FF59", <<"U+FF39">>>>,
     <<"U+FF5A", <<"U+FF3A">>>>, <<"U+10428", <<"U+10400">>>>,
     <<"U+10429", <<"U+10401">>>>, <<"U+1042A", <<"U+10402">>>>,
     <<"U+1042B", <<"U+10403">>>>, <<"U+1042C", <<"U+10404">>>>,
     <<"U+1042D", <<"U+10405">>>>, <<"U+1042E", <<"U+10406">>>>,
     <<"U+1042F", <<"U+10407">>>>, <<"U+10430", <<"U+10408">>>>,
     <<"U+10431", <<"U+10409">>>>, <<"U+10432", <<"U+1040A">>>>,
     <<"U+10433", <<"U+1040B">>>>, <<"U+10434", <<"U+1040C">>>>,
     <<"U+10435", <<"U+1040D">>>>, <<"U+10436", <<"U+1040E">>>>,
     <<"U+10437", <<"U+1040F">>>>, <<"U+10438", <<"U+10410">>>>,
     <<"U+10439", <<"U+10411">>>>, <<"U+1043A", <<"U+10412">>>>,
     <<"U+1043B", <<"U+10413">>>>, <<"U+1043C", <<"U+10414">>>>,
     <<"U+1043D", <<"U+10415">>>>, <<"U+1043E", <<"U+10416">>>>,
     <<"U+1043F", <<"U+10417">>>>, <<"U+10440", <<"U+10418">>>>,
     <<"U+10441", <<"U+10419">>>>, <<"U+10442", <<"U+1041A">>>>,
     <<"U+10443", <<"U+1041B">>>>, <<"U+10444", <<"U+1041C">>>>,
     <<"U+10445", <<"U+1041D">>>>, <<"U+10446", <<"U+1041E">>>>,
     <<"U+10447", <<"U+1041F">>>>, <<"U+10448", <<"U+10420">>>>,
     <<"U+10449", <<"U+10421">>>>, <<"U+1044A", <<"U+10422">>>>,
     <<"U+1044B", <<"U+10423">>>>, <<"U+1044C", <<"U+10424">>>>,
     <<"U+1044D", <<"U+10425">>>>, <<"U+1044E", <<"U+10426">>>>,
     <<"U+1044F", <<"U+10427">>>>, <<"U+104D8", <<"U+104B0">>>>,
     <<"U+104D9", <<"U+104B1">>>>, <<"U+104DA", <<"U+104B2">>>>,
     <<"U+104DB", <<"U+104B3">>>>, <<"U+104DC", <<"U+104B4">>>>,
     <<"U+104DD", <<"U+104B5">>>>, <<"U+104DE", <<"U+104B6">>>>,
     <<"U+104DF", <<"U+104B7">>>>, <<"U+104E0", <<"U+104B8">>>>,
     <<"U+104E1", <<"U+104B9">>>>, <<"U+104E2", <<"U+104BA">>>>,
     <<"U+104E3", <<"U+104BB">>>>, <<"U+104E4", <<"U+104BC">>>>,
     <<"U+104E5", <<"U+104BD">>>>, <<"U+104E6", <<"U+104BE">>>>,
     <<"U+104E7", <<"U+104BF">>>>, <<"U+104E8", <<"U+104C0">>>>,
     <<"U+104E9", <<"U+104C1">>>>, <<"U+104EA", <<"U+104C2">>>>,
     <<"U+104EB", <<"U+104C3">>>>, <<"U+104EC", <<"U+104C4">>>>,
     <<"U+104ED", <<"U+104C5">>>>, <<"U+104EE", <<"U+104C6">>>>,
     <<"U+104EF", <<"U+104C7">>>>, <<"U+104F0", <<"U+104C8">>>>,
     <<"U+104F1", <<"U+104C9">>>>, <<"U+104F2", <<"U+104CA">>>>,
     <<"U+104F3", <<"U+104CB">>>>, <<"U+104F4", <<"U+104CC">>>>,
     <<"U+104F5", <<"U+104CD">>>>, <<"U+104F6", <<"U+104CE">>>>,
     <<"U+104F7", <<"U+104CF">>>>, <<"U+104F8", <<"U+104D0">>>>,
     <<"U+104F9", <<"U+104D1">>>>, <<"U+104FA", <<"U+104D2">>>>,
     <<"U+104FB", <<"U+104D3">>>>, <<"U+10597", <<"U+10570">>>>,
     <<"U+10598", <<"U+10571">>>>, <<"U+10599", <<"U+10572">>>>,
     <<"U+1059A", <<"U+10573">>>>, <<"U+1059B", <<"U+10574">>>>,
     <<"U+1059C", <<"U+10575">>>>, <<"U+1059D", <<"U+10576">>>>,
     <<"U+1059E", <<"U+10577">>>>, <<"U+1059F", <<"U+10578">>>>,
     <<"U+105A0", <<"U+10579">>>>, <<"U+105A1", <<"U+1057A">>>>,
     <<"U+105A3", <<"U+1057C">>>>, <<"U+105A4", <<"U+1057D">>>>,
     <<"U+105A5", <<"U+1057E">>>>, <<"U+105A6", <<"U+1057F">>>>,
     <<"U+105A7", <<"U+10580">>>>, <<"U+105A8", <<"U+10581">>>>,
     <<"U+105A9", <<"U+10582">>>>, <<"U+105AA", <<"U+10583">>>>,
     <<"U+105AB", <<"U+10584">>>>, <<"U+105AC", <<"U+10585">>>>,
     <<"U+105AD", <<"U+10586">>>>, <<"U+105AE", <<"U+10587">>>>,
     <<"U+105AF", <<"U+10588">>>>, <<"U+105B0", <<"U+10589">>>>,
     <<"U+105B1", <<"U+1058A">>>>, <<"U+105B3", <<"U+1058C">>>>,
     <<"U+105B4", <<"U+1058D">>>>, <<"U+105B5", <<"U+1058E">>>>,
     <<"U+105B6", <<"U+1058F">>>>, <<"U+105B7", <<"U+10590">>>>,
     <<"U+105B8", <<"U+10591">>>>, <<"U+105B9", <<"U+10592">>>>,
     <<"U+105BB", <<"U+10594">>>>, <<"U+105BC", <<"U+10595">>>>,
     <<"U+10CC0", <<"U+10C80">>>>, <<"U+10CC1", <<"U+10C81">>>>,
     <<"U+10CC2", <<"U+10C82">>>>, <<"U+10CC3", <<"U+10C83">>>>,
     <<"U+10CC4", <<"U+10C84">>>>, <<"U+10CC5", <<"U+10C85">>>>,
     <<"U+10CC6", <<"U+10C86">>>>, <<"U+10CC7", <<"U+10C87">>>>,
     <<"U+10CC8", <<"U+10C88">>>>, <<"U+10CC9", <<"U+10C89">>>>,
     <<"U+10CCA", <<"U+10C8A">>>>, <<"U+10CCB", <<"U+10C8B">>>>,
     <<"U+10CCC", <<"U+10C8C">>>>, <<"U+10CCD", <<"U+10C8D">>>>,
     <<"U+10CCE", <<"U+10C8E">>>>, <<"U+10CCF", <<"U+10C8F">>>>,
     <<"U+10CD0", <<"U+10C90">>>>, <<"U+10CD1", <<"U+10C91">>>>,
     <<"U+10CD2", <<"U+10C92">>>>, <<"U+10CD3", <<"U+10C93">>>>,
     <<"U+10CD4", <<"U+10C94">>>>, <<"U+10CD5", <<"U+10C95">>>>,
     <<"U+10CD6", <<"U+10C96">>>>, <<"U+10CD7", <<"U+10C97">>>>,
     <<"U+10CD8", <<"U+10C98">>>>, <<"U+10CD9", <<"U+10C99">>>>,
     <<"U+10CDA", <<"U+10C9A">>>>, <<"U+10CDB", <<"U+10C9B">>>>,
     <<"U+10CDC", <<"U+10C9C">>>>, <<"U+10CDD", <<"U+10C9D">>>>,
     <<"U+10CDE", <<"U+10C9E">>>>, <<"U+10CDF", <<"U+10C9F">>>>,
     <<"U+10CE0", <<"U+10CA0">>>>, <<"U+10CE1", <<"U+10CA1">>>>,
     <<"U+10CE2", <<"U+10CA2">>>>, <<"U+10CE3", <<"U+10CA3">>>>,
     <<"U+10CE4", <<"U+10CA4">>>>, <<"U+10CE5", <<"U+10CA5">>>>,
     <<"U+10CE6", <<"U+10CA6">>>>, <<"U+10CE7", <<"U+10CA7">>>>,
     <<"U+10CE8", <<"U+10CA8">>>>, <<"U+10CE9", <<"U+10CA9">>>>,
     <<"U+10CEA", <<"U+10CAA">>>>, <<"U+10CEB", <<"U+10CAB">>>>,
     <<"U+10CEC", <<"U+10CAC">>>>, <<"U+10CED", <<"U+10CAD">>>>,
     <<"U+10CEE", <<"U+10CAE">>>>, <<"U+10CEF", <<"U+10CAF">>>>,
     <<"U+10CF0", <<"U+10CB0">>>>, <<"U+10CF1", <<"U+10CB1">>>>,
     <<"U+10CF2", <<"U+10CB2">>>>, <<"U+118C0", <<"U+118A0">>>>,
     <<"U+118C1", <<"U+118A1">>>>, <<"U+118C2", <<"U+118A2">>>>,
     <<"U+118C3", <<"U+118A3">>>>, <<"U+118C4", <<"U+118A4">>>>,
     <<"U+118C5", <<"U+118A5">>>>, <<"U+118C6", <<"U+118A6">>>>,
     <<"U+118C7", <<"U+118A7">>>>, <<"U+118C8", <<"U+118A8">>>>,
     <<"U+118C9", <<"U+118A9">>>>, <<"U+118CA", <<"U+118AA">>>>,
     <<"U+118CB", <<"U+118AB">>>>, <<"U+118CC", <<"U+118AC">>>>,
     <<"U+118CD", <<"U+118AD">>>>, <<"U+118CE", <<"U+118AE">>>>,
     <<"U+118CF", <<"U+118AF">>>>, <<"U+118D0", <<"U+118B0">>>>,
     <<"U+118D1", <<"U+118B1">>>>, <<"U+118D2", <<"U+118B2">>>>,
     <<"U+118D3", <<"U+118B3">>>>, <<"U+118D4", <<"U+118B4">>>>,
     <<"U+118D5", <<"U+118B5">>>>, <<"U+118D6", <<"U+118B6">>>>,
     <<"U+118D7", <<"U+118B7">>>>, <<"U+118D8", <<"U+118B8">>>>,
     <<"U+118D9", <<"U+118B9">>>>, <<"U+118DA", <<"U+118BA">>>>,
     <<"U+118DB", <<"U+118BB">>>>, <<"U+118DC", <<"U+118BC">>>>,
     <<"U+118DD", <<"U+118BD">>>>, <<"U+118DE", <<"U+118BE">>>>,
     <<"U+118DF", <<"U+118BF">>>>, <<"U+16E60", <<"U+16E40">>>>,
     <<"U+16E61", <<"U+16E41">>>>, <<"U+16E62", <<"U+16E42">>>>,
     <<"U+16E63", <<"U+16E43">>>>, <<"U+16E64", <<"U+16E44">>>>,
     <<"U+16E65", <<"U+16E45">>>>, <<"U+16E66", <<"U+16E46">>>>,
     <<"U+16E67", <<"U+16E47">>>>, <<"U+16E68", <<"U+16E48">>>>,
     <<"U+16E69", <<"U+16E49">>>>, <<"U+16E6A", <<"U+16E4A">>>>,
     <<"U+16E6B", <<"U+16E4B">>>>, <<"U+16E6C", <<"U+16E4C">>>>,
     <<"U+16E6D", <<"U+16E4D">>>>, <<"U+16E6E", <<"U+16E4E">>>>,
     <<"U+16E6F", <<"U+16E4F">>>>, <<"U+16E70", <<"U+16E50">>>>,
     <<"U+16E71", <<"U+16E51">>>>, <<"U+16E72", <<"U+16E52">>>>,
     <<"U+16E73", <<"U+16E53">>>>, <<"U+16E74", <<"U+16E54">>>>,
     <<"U+16E75", <<"U+16E55">>>>, <<"U+16E76", <<"U+16E56">>>>,
     <<"U+16E77", <<"U+16E57">>>>, <<"U+16E78", <<"U+16E58">>>>,
     <<"U+16E79", <<"U+16E59">>>>, <<"U+16E7A", <<"U+16E5A">>>>,
     <<"U+16E7B", <<"U+16E5B">>>>, <<"U+16E7C", <<"U+16E5C">>>>,
     <<"U+16E7D", <<"U+16E5D">>>>, <<"U+16E7E", <<"U+16E5E">>>>,
     <<"U+16E7F", <<"U+16E5F">>>>, <<"U+1E922", <<"U+1E900">>>>,
     <<"U+1E923", <<"U+1E901">>>>, <<"U+1E924", <<"U+1E902">>>>,
     <<"U+1E925", <<"U+1E903">>>>, <<"U+1E926", <<"U+1E904">>>>,
     <<"U+1E927", <<"U+1E905">>>>, <<"U+1E928", <<"U+1E906">>>>,
     <<"U+1E929", <<"U+1E907">>>>, <<"U+1E92A", <<"U+1E908">>>>,
     <<"U+1E92B", <<"U+1E909">>>>, <<"U+1E92C", <<"U+1E90A">>>>,
     <<"U+1E92D", <<"U+1E90B">>>>, <<"U+1E92E", <<"U+1E90C">>>>,
     <<"U+1E92F", <<"U+1E90D">>>>, <<"U+1E930", <<"U+1E90E">>>>,
     <<"U+1E931", <<"U+1E90F">>>>, <<"U+1E932", <<"U+1E910">>>>,
     <<"U+1E933", <<"U+1E911">>>>, <<"U+1E934", <<"U+1E912">>>>,
     <<"U+1E935", <<"U+1E913">>>>, <<"U+1E936", <<"U+1E914">>>>,
     <<"U+1E937", <<"U+1E915">>>>, <<"U+1E938", <<"U+1E916">>>>,
     <<"U+1E939", <<"U+1E917">>>>, <<"U+1E93A", <<"U+1E918">>>>,
     <<"U+1E93B", <<"U+1E919">>>>, <<"U+1E93C", <<"U+1E91A">>>>,
     <<"U+1E93D", <<"U+1E91B">>>>, <<"U+1E93E", <<"U+1E91C">>>>,
     <<"U+1E93F", <<"U+1E91D">>>>, <<"U+1E940", <<"U+1E91E">>>>,
     <<"U+1E941", <<"U+1E91F">>>>, <<"U+1E942", <<"U+1E920">>>>,
     <<"U+1E943", <<"U+1E921">>>>
    }

LowerPairs ==
    {
     <<"A", <<"a">>>>, <<"B", <<"b">>>>, <<"C", <<"c">>>>, <<"D", <<"d">>>>,
     <<"E", <<"e">>>>, <<"F", <<"f">>>>, <<"G", <<"g">>>>, <<"H", <<"h">>>>,
     <<"I", <<"i">>>>, <<"J", <<"j">>>>, <<"K", <<"k">>>>, <<"L", <<"l">>>>,
     <<"M", <<"m">>>>, <<"N", <<"n">>>>, <<"O", <<"o">>>>, <<"P", <<"p">>>>,
     <<"Q", <<"q">>>>, <<"R", <<"r">>>>, <<"S", <<"s">>>>, <<"T", <<"t">>>>,
     <<"U", <<"u">>>>, <<"V", <<"v">>>>, <<"W", <<"w">>>>, <<"X", <<"x">>>>,
     <<"Y", <<"y">>>>, <<"Z", <<"z">>>>, <<"À", <<"à">>>>, <<"Á", <<"á">>>>,
     <<"Â", <<"â">>>>, <<"Ã", <<"ã">>>>, <<"Ä", <<"ä">>>>, <<"Å", <<"å">>>>,
     <<"Æ", <<"æ">>>>, <<"Ç", <<"ç">>>>, <<"È", <<"è">>>>, <<"É", <<"é">>>>,
     <<"Ê", <<"ê">>>>, <<"Ë", <<"ë">>>>, <<"Ì", <<"ì">>>>, <<"Í", <<"í">>>>,
     <<"Î", <<"î">>>>, <<"Ï", <<"ï">>>>, <<"Ð", <<"ð">>>>, <<"Ñ", <<"ñ">>>>,
     <<"Ò", <<"ò">>>>, <<"Ó", <<"ó">>>>, <<"Ô", <<"ô">>>>, <<"Õ", <<"õ">>>>,
     <<"Ö", <<"ö">>>>, <<"Ø", <<"ø">>>>, <<"Ù", <<"ù">>>>, <<"Ú", <<"ú">>>>,
     <<"Û", <<"û">>>>, <<"Ü", <<"ü">>>>, <<"Ý", <<"ý">>>>, <<"Þ", <<"þ">>>>,
     <<"U+0100", <<"U+0101">>>>, <<"U+0102", <<"U+0103">>>>,
     <<"U+0104", <<"U+0105">>>>, <<"U+0106", <<"U+0107">>>>,
     <<"U+0108", <<"U+0109">>>>, <<"U+010A", <<"U+010B">>>>,
     <<"U+010C", <<"U+010D">>>>, <<"U+010E", <<"U+010F">>>>,
     <<"U+0110", <<"U+0111">>>>, <<"U+0112", <<"U+0113">>>>,
     <<"U+0114", <<"U+0115">>>>, <<"U+0116", <<"U+0117">>>>,
     <<"U+0118", <<"U+0119">>>>, <<"U+011A", <<"U+011B">>>>,
     <<"U+011C", <<"U+011D">>>>, <<"U+011E", <<"U+011F">>>>,
     <<"U+0120", <<"U+0121">>>>, <<"U+0122", <<"U+0123">>>>,
     <<"U+0124", <<"U+0125">>>>, <<"U+0126", <<"U+0127">>>>,
     <<"U+0128", <<"U+0129">>>>, <<"U+012A", <<"U+012B">>>>,
     <<"U+012C", <<"U+012D">>>>, <<"U+012E", <<"U+012F">>>>,
     <<"U+0130", <<"i", "U+0307">>>>, <<"U+0132", <<"U+0133">>>>,
     <<"U+0134", <<"U+0135">>>>, <<"U+0136", <<"U+0137">>>>,
     <<"U+0139", <<"U+013A">>>>, <<"U+013B", <<"U+013C">>>>,
     <<"U+013D", <<"U+013E">>>>, <<"U+013F", <<"U+0140">>>>,
     <<"U+0141", <<"U+0142">>>>, <<"U+0143", <<"U+0144">>>>,
     <<"U+0145", <<"U+0146">>>>, <<"U+0147", <<"U+0148">>>>,
     <<"U+014A", <<"U+014B">>>>, <<"U+014C", <<"U+014D">>>>,
     <<"U+014E", <<"U+014F">>>>, <<"U+0150", <<"U+0151">>>>,
     <<"U+0152", <<"U+0153">>>>, <<"U+0154", <<"U+0155">>>>,
     <<"U+0156", <<"U+0157">>>>, <<"U+0158", <<"U+0159">>>>,
     <<"U+015A", <<"U+015B">>>>, <<"U+015C", <<"U+015D">>>>,
     <<"U+015E", <<"U+015F">>>>, <<"U+0160", <<"U+0161">>>>,
     <<"U+0162", <<"U+0163">>>>, <<"U+0164", <<"U+0165">>>>,
     <<"U+0166", <<"U+0167">>>>, <<"U+0168", <<"U+0169">>>>,
     <<"U+016A", <<"U+016B">>>>, <<"U+016C", <<"U+016D">>>>,
     <<"U+016E", <<"U+016F">>>>, <<"U+0170", <<"U+0171">>>>,
     <<"U+0172", <<"U+0173">>>>, <<"U+0174", <<"U+0175">>>>,
     <<"U+0176", <<"U+0177">>>>, <<"U+0178", <<"ÿ">>>>,
     <<"U+0179", <<"U+017A">>>>, <<"U+017B", <<"U+017C">>>>,
     <<"U+017D", <<"U+017E">>>>, <<"Ɓ", <<"U+0253">>>>, <<"Ƃ", <<"ƃ">>>>,
     <<"Ƅ", <<"ƅ">>>>, <<"Ɔ", <<"U+0254">>>>, <<"Ƈ", <<"ƈ">>>>,
     <<"Ɖ", <<"U+0256">>>>, <<"Ɗ", <<"U+0257">>>>, <<"Ƌ", <<"ƌ">>>>,
     <<"Ǝ", <<"ǝ">>>>, <<"Ə", <<"U+0259">>>>, <<"Ɛ", <<"U+025B">>>>,
     <<"Ƒ", <<"ƒ">>>>, <<"Ɠ", <<"U+0260">>>>, <<"Ɣ", <<"U+0263">>>>,
     <<"Ɩ", <<"U+0269">>>>, <<"Ɨ", <<"U+0268">>>>, <<"Ƙ", <<"ƙ">>>>,
     <<"Ɯ", <<"U+026F">>>>, <<"Ɲ", <<"U+0272">>>>, <<"Ɵ", <<"U+0275">>>>,
     <<"Ơ", <<"ơ">>>>, <<"Ƣ", <<"ƣ">>>>, <<"Ƥ", <<"ƥ">>>>, <<"Ʀ", <<"ʀ">>>>,
     <<"Ƨ", <<"ƨ">>>>, <<"Ʃ", <<"ʃ">>>>, <<"Ƭ", <<"ƭ">>>>, <<"Ʈ", <<"ʈ">>>>,
     <<"Ư", <<"ư">>>>, <<"Ʊ", <<"ʊ">>>>, <<"Ʋ", <<"ʋ">>>>, <<"Ƴ", <<"ƴ">>>>,
     <<"Ƶ", <<"ƶ">>>>, <<"Ʒ", <<"ʒ">>>>, <<"Ƹ", <<"ƹ">>>>, <<"Ƽ", <<"ƽ">>>>,
     <<"Ǆ", <<"ǆ">>>>, <<"ǅ", <<"ǆ">>>>, <<"Ǉ", <<"ǉ">>>>, <<"ǈ", <<"ǉ">>>>,
     <<"Ǌ", <<"ǌ">>>>, <<"ǋ", <<"ǌ">>>>, <<"Ǎ", <<"ǎ">>>>, <<"Ǐ", <<"ǐ">>>>,
     <<"Ǒ", <<"ǒ">>>>, <<"Ǔ", <<"ǔ">>>>, <<"Ǖ", <<"ǖ">>>>, <<"Ǘ", <<"ǘ">>>>,
     <<"Ǚ", <<"ǚ">>>>, <<"Ǜ", <<"ǜ">>>>, <<"Ǟ", <<"ǟ">>>>, <<"Ǡ", <<"ǡ">>>>,
     <<"Ǣ", <<"ǣ">>>>, <<"Ǥ", <<"ǥ">>>>, <<"Ǧ", <<"ǧ">>>>, <<"Ǩ", <<"ǩ">>>>,
     <<"Ǫ", <<"ǫ">>>>, <<"Ǭ", <<"ǭ">>>>, <<"Ǯ", <<"ǯ">>>>, <<"Ǳ", <<"ǳ">>>>,
     <<"ǲ", <<"ǳ">>>>, <<"Ǵ", <<"ǵ">>>>, <<"Ƕ", <<"ƕ">>>>, <<"Ƿ", <<"ƿ">>>>,
     <<"Ǹ", <<"ǹ">>>>, <<"Ǻ", <<"ǻ">>>>, <<"Ǽ", <<"ǽ">>>>, <<"Ǿ", <<"ǿ">>>>,
     <<"U+0200", <<"U+0201">>>>, <<"U+0202", <<"U+0203">>>>,
     <<"U+0204", <<"U+0205">>>>, <<"U+0206", <<"U+0207">>>>,
     <<"U+0208", <<"U+0209">>>>, <<"U+020A", <<"U+020B">>>>,
     <<"U+020C", <<"U+020D">>>>, <<"U+020E", <<"U+020F">>>>,
     <<"U+0210", <<"U+0211">>>>, <<"U+0212", <<"U+0213">>>>,
     <<"U+0214", <<"U+0215">>>>, <<"U+0216", <<"U+0217">>>>,
     <<"U+0218", <<"U+0219">>>>, <<"U+021A", <<"U+021B">>>>,
     <<"U+021C", <<"U+021D">>>>, <<"U+021E", <<"U+021F">>>>,
     <<"U+0220", <<"ƞ">>>>, <<"U+0222", <<"U+0223">>>>,
     <<"U+0224", <<"U+0225">>>>, <<"U+0226", <<"U+0227">>>>,
     <<"U+0228", <<"U+0229">>>>, <<"U+022A", <<"U+022B">>>>,
     <<"U+022C", <<"U+022D">>>>, <<"U+022E", <<"U+022F">>>>,
     <<"U+0230", <<"U+0231">>>>, <<"U+0232", <<"U+0233">>>>,
     <<"U+023A", <<"U+2C65">>>>, <<"U+023B", <<"U+023C">>>>,
     <<"U+023D", <<"ƚ">>>>, <<"U+023E", <<"U+2C66">>>>,
     <<"U+0241", <<"U+0242">>>>, <<"U+0243", <<"ƀ">>>>,
     <<"U+0244", <<"ʉ">>>>, <<"U+0245", <<"ʌ">>>>,
     <<"U+0246", <<"U+0247">>>>, <<"U+0248", <<"U+0249">>>>,
     <<"U+024A", <<"U+024B">>>>, <<"U+024C", <<"U+024D">>>>,
     <<"U+024E", <<"U+024F">>>>, <<"U+0370", <<"U+0371">>>>,
     <<"U+0372", <<"U+0373">>>>, <<"U+0376", <<"U+0377">>>>,
     <<"U+037F", <<"ϳ">>>>, <<"Ά", <<"ά">>>>, <<"Έ", <<"έ">>>>,
     <<"Ή", <<"ή">>>>, <<"Ί", <<"ί">>>>, <<"Ό", <<"ό">>>>, <<"Ύ", <<"ύ">>>>,
     <<"Ώ", <<"ώ">>>>, <<"Α", <<"α">>>>, <<"Β", <<"β">>>>, <<"Γ", <<"γ">>>>,
     <<"Δ", <<"δ">>>>, <<"Ε", <<"ε">>>>, <<"Ζ", <<"ζ">>>>, <<"Η", <<"η">>>>,
     <<"Θ", <<"θ">>>>, <<"Ι", <<"ι">>>>, <<"Κ", <<"κ">>>>, <<"Λ", <<"λ">>>>,
     <<"Μ", <<"μ">>>>, <<"Ν", <<"ν">>>>, <<"Ξ", <<"ξ">>>>, <<"Ο", <<"ο">>>>,
     <<"Π", <<"π">>>>, <<"Ρ", <<"ρ">>>>, <<"Σ", <<"σ">>>>, <<"Τ", <<"τ">>>>,
     <<"Υ", <<"υ">>>>, <<"Φ", <<"φ">>>>, <<"Χ", <<"χ">>>>, <<"Ψ", <<"ψ">>>>,
     <<"Ω", <<"ω">>>>, <<"Ϊ", <<"ϊ">>>>, <<"Ϋ", <<"ϋ">>>>, <<"Ϗ", <<"ϗ">>>>,
     <<"Ϙ", <<"ϙ">>>>, <<"Ϛ", <<"ϛ">>>>, <<"Ϝ", <<"ϝ">>>>, <<"Ϟ", <<"ϟ">>>>,
     <<"Ϡ", <<"ϡ">>>>, <<"Ϣ", <<"ϣ">>>>, <<"Ϥ", <<"ϥ">>>>, <<"Ϧ", <<"ϧ">>>>,
     <<"Ϩ", <<"ϩ">>>>, <<"Ϫ", <<"ϫ">>>>, <<"Ϭ", <<"ϭ">>>>, <<"Ϯ", <<"ϯ">>>>,
     <<"ϴ", <<"θ">>>>, <<"Ϸ", <<"ϸ">>>>, <<"Ϲ", <<"ϲ">>>>, <<"Ϻ", <<"ϻ">>>>,
     <<"Ͻ", <<"U+037B">>>>, <<"Ͼ", <<"U+037C">>>>, <<"Ͽ", <<"U+037D">>>>,
     <<"U+0400", <<"U+0450">>>>, <<"U+0401", <<"U+0451">>>>,
     <<"U+0402", <<"U+0452">>>>, <<"U+0403", <<"U+0453">>>>,
     <<"U+0404", <<"U+0454">>>>, <<"U+0405", <<"U+0455">>>>,
     <<"U+0406", <<"U+0456">>>>, <<"U+0407", <<"U+0457">>>>,
     <<"U+0408", <<"U+0458">>>>, <<"U+0409", <<"U+0459">>>>,
     <<"U+040A", <<"U+045A">>>>, <<"U+040B", <<"U+045B">>>>,
     <<"U+040C", <<"U+045C">>>>, <<"U+040D", <<"U+045D">>>>,
     <<"U+040E", <<"U+045E">>>>, <<"U+040F", <<"U+045F">>>>,
     <<"U+0410", <<"U+0430">>>>, <<"U+0411", <<"U+0431">>>>,
     <<"U+0412", <<"U+0432">>>>, <<"U+0413", <<"U+0433">>>>,
     <<"U+0414", <<"U+0434">>>>, <<"U+0415", <<"U+0435">>>>,
     <<"U+0416", <<"U+0436">>>>, <<"U+0417", <<"U+0437">>>>,
     <<"U+0418", <<"U+0438">>>>, <<"U+0419", <<"U+0439">>>>,
     <<"U+041A", <<"U+043A">>>>, <<"U+041B", <<"U+043B">>>>,
     <<"U+041C", <<"U+043C">>>>, <<"U+041D", <<"U+043D">>>>,
     <<"U+041E", <<"U+043E">>>>, <<"U+041F", <<"U+043F">>>>,
     <<"U+0420", <<"U+0440">>>>, <<"U+0421", <<"U+0441">>>>,
     <<"U+0422", <<"U+0442">>>>, <<"U+0423", <<"U+0443">>>>,
     <<"U+0424", <<"U+0444">>>>, <<"U+0425", <<"U+0445">>>>,
     <<"U+0426", <<"U+0446">>>>, <<"U+0427", <<"U+0447">>>>,
     <<"U+0428", <<"U+0448">>>>, <<"U+0429", <<"U+0449">>>>,
     <<"U+042A", <<"U+044A">>>>, <<"U+042B", <<"U+044B">>>>,
     <<"U+042C", <<"U+044C">>>>, <<"U+042D", <<"U+044D">>>>,
     <<"U+042E", <<"U+044E">>>>, <<"U+042F", <<"U+044F">>>>,
     <<"U+0460", <<"U+0461">>>>, <<"U+0462", <<"U+0463">>>>,
     <<"U+0464", <<"U+0465">>>>, <<"U+0466", <<"U+0467">>>>,
     <<"U+0468", <<"U+0469">>>>, <<"U+046A", <<"U+046B">>>>,
     <<"U+046C", <<"U+046D">>>>, <<"U+046E", <<"U+046F">>>>,
     <<"U+0470", <<"U+0471">>>>, <<"U+0472", <<"U+0473">>>>,
     <<"U+0474", <<"U+0475">>>>, <<"U+0476", <<"U+0477">>>>,
     <<"U+0478", <<"U+0479">>>>, <<"U+047A", <<"U+047B">>>>,
     <<"U+047C", <<"U+047D">>>>, <<"U+047E", <<"U+047F">>>>,
     <<"Ҁ", <<"ҁ">>>>, <<"Ҋ", <<"ҋ">>>>, <<"Ҍ", <<"ҍ">>>>, <<"Ҏ", <<"ҏ">>>>,
     <<"Ґ", <<"ґ">>>>, <<"Ғ", <<"ғ">>>>, <<"Ҕ", <<"ҕ">>>>, <<"Җ", <<"җ">>>>,
     <<"Ҙ", <<"ҙ">>>>, <<"Қ", <<"қ">>>>, <<"Ҝ", <<"ҝ">>>>, <<"Ҟ", <<"ҟ">>>>,
     <<"Ҡ", <<"ҡ">>>>, <<"Ң", <<"ң">>>>, <<"Ҥ", <<"ҥ">>>>, <<"Ҧ", <<"ҧ">>>>,
     <<"Ҩ", <<"ҩ">>>>, <<"Ҫ", <<"ҫ">>>>, <<"Ҭ", <<"ҭ">>>>, <<"Ү", <<"ү">>>>,
     <<"Ұ", <<"ұ">>>>, <<"Ҳ", <<"ҳ">>>>, <<"Ҵ", <<"ҵ">>>>, <<"Ҷ", <<"ҷ">>>>,
     <<"Ҹ", <<"ҹ">>>>, <<"Һ", <<"һ">>>>, <<"Ҽ", <<"ҽ">>>>, <<"Ҿ", <<"ҿ">>>>,
     <<"Ӏ", <<"ӏ">>>>, <<"Ӂ", <<"ӂ">>>>, <<"Ӄ", <<"ӄ">>>>, <<"Ӆ", <<"ӆ">>>>,
     <<"Ӈ", <<"ӈ">>>>, <<"Ӊ", <<"ӊ">>>>, <<"Ӌ", <<"ӌ">>>>, <<"Ӎ", <<"ӎ">>>>,
     <<"Ӑ", <<"ӑ">>>>, <<"Ӓ", <<"ӓ">>>>, <<"Ӕ", <<"ӕ">>>>, <<"Ӗ", <<"ӗ">>>>,
     <<"Ә", <<"ә">>>>, <<"Ӛ", <<"ӛ">>>>, <<"Ӝ", <<"ӝ">>>>, <<"Ӟ", <<"ӟ">>>>,
     <<"Ӡ", <<"ӡ">>>>, <<"Ӣ", <<"ӣ">>>>, <<"Ӥ", <<"ӥ">>>>, <<"Ӧ", <<"ӧ">>>>,
     <<"Ө", <<"ө">>>>, <<"Ӫ", <<"ӫ">>>>, <<"Ӭ", <<"ӭ">>>>, <<"Ӯ", <<"ӯ">>>>,
     <<"Ӱ", <<"ӱ">>>>, <<"Ӳ", <<"ӳ">>>>, <<"Ӵ", <<"ӵ">>>>, <<"Ӷ", <<"ӷ">>>>,
     <<"Ӹ", <<"ӹ">>>>, <<"Ӻ", <<"ӻ">>>>, <<"Ӽ", <<"ӽ">>>>, <<"Ӿ", <<"ӿ">>>>,
     <<"U+0500", <<"U+0501">>>>, <<"U+0502", <<"U+0503">>>>,
     <<"U+0504", <<"U+0505">>>>, <<"U+0506", <<"U+0507">>>>,
     <<"U+0508", <<"U+0509">>>>, <<"U+050A", <<"U+050B">>>>,
     <<"U+050C", <<"U+050D">>>>, <<"U+050E", <<"U+050F">>>>,
     <<"U+0510", <<"U+0511">>>>, <<"U+0512", <<"U+0513">>>>,
     <<"U+0514", <<"U+0515">>>>, <<"U+0516", <<"U+0517">>>>,
     <<"U+0518", <<"U+0519">>>>, <<"U+051A", <<"U+051B">>>>,
     <<"U+051C", <<"U+051D">>>>, <<"U+051E", <<"U+051F">>>>,
     <<"U+0520", <<"U+0521">>>>, <<"U+0522", <<"U+0523">>>>,
     <<"U+0524", <<"U+0525">>>>, <<"U+0526", <<"U+0527">>>>,
     <<"U+0528", <<"U+0529">>>>, <<"U+052A", <<"U+052B">>>>,
     <<"U+052C", <<"U+052D">>>>, <<"U+052E", <<"U+052F">>>>,
     <<"U+0531", <<"U+0561">>>>, <<"U+0532", <<"U+0562">>>>,
     <<"U+0533", <<"U+0563">>>>, <<"U+0534", <<"U+0564">>>>,
     <<"U+0535", <<"U+0565">>>>, <<"U+0536", <<"U+0566">>>>,
     <<"U+0537", <<"U+0567">>>>, <<"U+0538", <<"U+0568">>>>,
     <<"U+0539", <<"U+0569">>>>, <<"U+053A", <<"U+056A">>>>,
     <<"U+053B", <<"U+056B">>>>, <<"U+053C", <<"U+056C">>>>,
     <<"U+053D", <<"U+056D">>>>, <<"U+053E", <<"U+056E">>>>,
     <<"U+053F", <<"U+056F">>>>, <<"U+0540", <<"U+0570">>>>,
     <<"U+0541", <<"U+0571">>>>, <<"U+0542", <<"U+0572">>>>,
     <<"U+0543", <<"U+0573">>>>, <<"U+0544", <<"U+0574">>>>,
     <<"U+0545", <<"U+0575">>>>, <<"U+0546", <<"U+0576">>>>,
     <<"U+0547", <<"U+0577">>>>, <<"U+0548", <<"U+0578">>>>,
     <<"U+0549", <<"U+0579">>>>, <<"U+054A", <<"U+057A">>>>,
     <<"U+054B", <<"U+057B">>>>, <<"U+054C", <<"U+057C">>>>,
     <<"U+054D", <<"U+057D">>>>, <<"U+054E", <<"U+057E">>>>,
     <<"U+054F", <<"U+057F">>>>, <<"U+0550", <<"ր">>>>,
     <<"U+0551", <<"ց">>>>, <<"U+0552", <<"ւ">>>>, <<"U+0553", <<"փ">>>>,
     <<"U+0554", <<"ք">>>>, <<"U+0555", <<"օ">>>>, <<"U+0556", <<"ֆ">>>>,
     <<"Ⴀ", <<"U+2D00">>>>, <<"Ⴁ", <<"U+2D01">>>>, <<"Ⴂ", <<"U+2D02">>>>,
     <<"Ⴃ", <<"U+2D03">>>>, <<"Ⴄ", <<"U+2D04">>>>, <<"Ⴅ", <<"U+2D05">>>>,
     <<"Ⴆ", <<"U+2D06">>>>, <<"Ⴇ", <<"U+2D07">>>>, <<"Ⴈ", <<"U+2D08">>>>,
     <<"Ⴉ", <<"U+2D09">>>>, <<"Ⴊ", <<"U+2D0A">>>>, <<"Ⴋ", <<"U+2D0B">>>>,
     <<"Ⴌ", <<"U+2D0C">>>>, <<"Ⴍ", <<"U+2D0D">>>>, <<"Ⴎ", <<"U+2D0E">>>>,
     <<"Ⴏ", <<"U+2D0F">>>>, <<"Ⴐ", <<"U+2D10">>>>, <<"Ⴑ", <<"U+2D11">>>>,
     <<"Ⴒ", <<"U+2D12">>>>, <<"Ⴓ", <<"U+2D13">>>>, <<"Ⴔ", <<"U+2D14">>>>,
     <<"Ⴕ", <<"U+2D15">>>>, <<"Ⴖ", <<"U+2D16">>>>, <<"Ⴗ", <<"U+2D17">>>>,
     <<"Ⴘ", <<"U+2D18">>>>, <<"Ⴙ", <<"U+2D19">>>>, <<"Ⴚ", <<"U+2D1A">>>>,
     <<"Ⴛ", <<"U+2D1B">>>>, <<"Ⴜ", <<"U+2D1C">>>>, <<"Ⴝ", <<"U+2D1D">>>>,
     <<"Ⴞ", <<"U+2D1E">>>>, <<"Ⴟ", <<"U+2D1F">>>>, <<"Ⴠ", <<"U+2D20">>>>,
     <<"Ⴡ", <<"U+2D21">>>>, <<"Ⴢ", <<"U+2D22">>>>, <<"Ⴣ", <<"U+2D23">>>>,
     <<"Ⴤ", <<"U+2D24">>>>, <<"Ⴥ", <<"U+2D25">>>>, <<"Ⴧ", <<"U+2D27">>>>,
     <<"Ⴭ", <<"U+2D2D">>>>, <<"Ꭰ", <<"U+AB70">>>>, <<"Ꭱ", <<"U+AB71">>>>,
     <<"Ꭲ", <<"U+AB72">>>>, <<"Ꭳ", <<"U+AB73">>>>, <<"Ꭴ", <<"U+AB74">>>>,
     <<"Ꭵ", <<"U+AB75">>>>, <<"Ꭶ", <<"U+AB76">>>>, <<"Ꭷ", <<"U+AB77">>>>,
     <<"Ꭸ", <<"U+AB78">>>>, <<"Ꭹ", <<"U+AB79">>>>, <<"Ꭺ", <<"U+AB7A">>>>,
     <<"Ꭻ", <<"U+AB7B">>>>, <<"Ꭼ", <<"U+AB7C">>>>, <<"Ꭽ", <<"U+AB7D">>>>,
     <<"Ꭾ", <<"U+AB7E">>>>, <<"Ꭿ", <<"U+AB7F">>>>, <<"Ꮀ", <<"ꮀ">>>>,
     <<"Ꮁ", <<"ꮁ">>>>, <<"Ꮂ", <<"ꮂ">>>>, <<"Ꮃ", <<"ꮃ">>>>, <<"Ꮄ", <<"ꮄ">>>>,
     <<"Ꮅ", <<"ꮅ">>>>, <<"Ꮆ", <<"ꮆ">>>>, <<"Ꮇ", <<"ꮇ">>>>, <<"Ꮈ", <<"ꮈ">>>>,
     <<"Ꮉ", <<"ꮉ">>>>, <<"Ꮊ", <<"ꮊ">>>>, <<"Ꮋ", <<"ꮋ">>>>, <<"Ꮌ", <<"ꮌ">>>>,
     <<"Ꮍ", <<"ꮍ">>>>, <<"Ꮎ", <<"ꮎ">>>>, <<"Ꮏ", <<"ꮏ">>>>, <<"Ꮐ", <<"ꮐ">>>>,
     <<"Ꮑ", <<"ꮑ">>>>, <<"Ꮒ", <<"ꮒ">>>>, <<"Ꮓ", <<"ꮓ">>>>, <<"Ꮔ", <<"ꮔ">>>>,
     <<"Ꮕ", <<"ꮕ">>>>, <<"Ꮖ", <<"ꮖ">>>>, <<"Ꮗ", <<"ꮗ">>>>, <<"Ꮘ", <<"ꮘ">>>>,
     <<"Ꮙ", <<"ꮙ">>>>, <<"Ꮚ", <<"ꮚ">>>>, <<"Ꮛ", <<"ꮛ">>>>, <<"Ꮜ", <<"ꮜ">>>>,
     <<"Ꮝ", <<"ꮝ">>>>, <<"Ꮞ", <<"ꮞ">>>>, <<"Ꮟ", <<"ꮟ">>>>, <<"Ꮠ", <<"ꮠ">>>>,
     <<"Ꮡ", <<"ꮡ">>>>, <<"Ꮢ", <<"ꮢ">>>>, <<"Ꮣ", <<"ꮣ">>>>, <<"Ꮤ", <<"ꮤ">>>>,
     <<"Ꮥ", <<"ꮥ">>>>, <<"Ꮦ", <<"ꮦ">>>>, <<"Ꮧ", <<"ꮧ">>>>, <<"Ꮨ", <<"ꮨ">>>>,
     <<"Ꮩ", <<"ꮩ">>>>, <<"Ꮪ", <<"ꮪ">>>>, <<"Ꮫ", <<"ꮫ">>>>, <<"Ꮬ", <<"ꮬ">>>>,
     <<"Ꮭ", <<"ꮭ">>>>, <<"Ꮮ", <<"ꮮ">>>>, <<"Ꮯ", <<"ꮯ">>>>, <<"Ꮰ", <<"ꮰ">>>>,
     <<"Ꮱ", <<"ꮱ">>>>, <<"Ꮲ", <<"ꮲ">>>>, <<"Ꮳ", <<"ꮳ">>>>, <<"Ꮴ", <<"ꮴ">>>>,
     <<"Ꮵ", <<"ꮵ">>>>, <<"Ꮶ", <<"ꮶ">>>>, <<"Ꮷ", <<"ꮷ">>>>, <<"Ꮸ", <<"ꮸ">>>>,
     <<"Ꮹ", <<"ꮹ">>>>, <<"Ꮺ", <<"ꮺ">>>>, <<"Ꮻ", <<"ꮻ">>>>, <<"Ꮼ", <<"ꮼ">>>>,
     <<"Ꮽ", <<"ꮽ">>>>, <<"Ꮾ", <<"ꮾ">>>>, <<"Ꮿ", <<"ꮿ">>>>, <<"Ᏸ", <<"ᏸ">>>>,
     <<"Ᏹ", <<"ᏹ">>>>, <<"Ᏺ", <<"ᏺ">>>>, <<"Ᏻ", <<"ᏻ">>>>, <<"Ᏼ", <<"ᏼ">>>>,
     <<"Ᏽ", <<"ᏽ">>>>, <<"Ა", <<"ა">>>>, <<"Ბ", <<"ბ">>>>, <<"Გ", <<"გ">>>>,
     <<"Დ", <<"დ">>>>, <<"Ე", <<"ე">>>>, <<"Ვ", <<"ვ">>>>, <<"Ზ", <<"ზ">>>>,
     <<"Თ", <<"თ">>>>, <<"Ი", <<"ი">>>>, <<"Კ", <<"კ">>>>, <<"Ლ", <<"ლ">>>>,
     <<"Მ", <<"მ">>>>, <<"Ნ", <<"ნ">>>>, <<"Ო", <<"ო">>>>, <<"Პ", <<"პ">>>>,
     <<"Ჟ", <<"ჟ">>>>, <<"Რ", <<"რ">>>>, <<"Ს", <<"ს">>>>, <<"Ტ", <<"ტ">>>>,
     <<"Უ", <<"უ">>>>, <<"Ფ", <<"ფ">>>>, <<"Ქ", <<"ქ">>>>, <<"Ღ", <<"ღ">>>>,
     <<"Ყ", <<"ყ">>>>, <<"Შ", <<"შ">>>>, <<"Ჩ", <<"ჩ">>>>, <<"Ც", <<"ც">>>>,
     <<"Ძ", <<"ძ">>>>, <<"Წ", <<"წ">>>>, <<"Ჭ", <<"ჭ">>>>, <<"Ხ", <<"ხ">>>>,
     <<"Ჯ", <<"ჯ">>>>, <<"Ჰ", <<"ჰ">>>>, <<"Ჱ", <<"ჱ">>>>, <<"Ჲ", <<"ჲ">>>>,
     <<"Ჳ", <<"ჳ">>>>, <<"Ჴ", <<"ჴ">>>>, <<"Ჵ", <<"ჵ">>>>, <<"Ჶ", <<"ჶ">>>>,
     <<"Ჷ", <<"ჷ">>>>, <<"Ჸ", <<"ჸ">>>>, <<"Ჹ", <<"ჹ">>>>, <<"Ჺ", <<"ჺ">>>>,
     <<"Ჽ", <<"ჽ">>>>, <<"Ჾ", <<"ჾ">>>>, <<"Ჿ", <<"ჿ">>>>,
     <<"U+1E00", <<"U+1E01">>>>, <<"U+1E02", <<"U+1E03">>>>,
     <<"U+1E04", <<"U+1E05">>>>, <<"U+1E06", <<"U+1E07">>>>,
     <<"U+1E08", <<"U+1E09">>>>, <<"U+1E0A", <<"U+1E0B">>>>,
     <<"U+1E0C", <<"U+1E0D">>>>, <<"U+1E0E", <<"U+1E0F">>>>,
     <<"U+1E10", <<"U+1E11">>>>, <<"U+1E12", <<"U+1E13">>>>,
     <<"U+1E14", <<"U+1E15">>>>, <<"U+1E16", <<"U+1E17">>>>,
     <<"U+1E18", <<"U+1E19">>>>, <<"U+1E1A", <<"U+1E1B">>>>,
     <<"U+1E1C", <<"U+1E1D">>>>, <<"U+1E1E", <<"U+1E1F">>>>,
     <<"U+1E20", <<"U+1E21">>>>, <<"U+1E22", <<"U+1E23">>>>,
     <<"U+1E24", <<"U+1E25">>>>, <<"U+1E26", <<"U+1E27">>>>,
     <<"U+1E28", <<"U+1E29">>>>, <<"U+1E2A", <<"U+1E2B">>>>,
     <<"U+1E2C", <<"U+1E2D">>>>, <<"U+1E2E", <<"U+1E2F">>>>,
     <<"U+1E30", <<"U+1E31">>>>, <<"U+1E32", <<"U+1E33">>>>,
     <<"U+1E34", <<"U+1E35">>>>, <<"U+1E36", <<"U+1E37">>>>,
     <<"U+1E38", <<"U+1E39">>>>, <<"U+1E3A", <<"U+1E3B">>>>,
     <<"U+1E3C", <<"U+1E3D">>>>, <<"U+1E3E", <<"U+1E3F">>>>,
     <<"U+1E40", <<"U+1E41">>>>, <<"U+1E42", <<"U+1E43">>>>,
     <<"U+1E44", <<"U+1E45">>>>, <<"U+1E46", <<"U+1E47">>>>,
     <<"U+1E48", <<"U+1E49">>>>, <<"U+1E4A", <<"U+1E4B">>>>,
     <<"U+1E4C", <<"U+1E4D">>>>, <<"U+1E4E", <<"U+1E4F">>>>,
     <<"U+1E50", <<"U+1E51">>>>, <<"U+1E52", <<"U+1E53">>>>,
     <<"U+1E54", <<"U+1E55">>>>, <<"U+1E56", <<"U+1E57">>>>,
     <<"U+1E58", <<"U+1E59">>>>, <<"U+1E5A", <<"U+1E5B">>>>,
     <<"U+1E5C", <<"U+1E5D">>>>, <<"U+1E5E", <<"U+1E5F">>>>,
     <<"U+1E60", <<"U+1E61">>>>, <<"U+1E62", <<"U+1E63">>>>,
     <<"U+1E64", <<"U+1E65">>>>, <<"U+1E66", <<"U+1E67">>>>,
     <<"U+1E68", <<"U+1E69">>>>, <<"U+1E6A", <<"U+1E6B">>>>,
     <<"U+1E6C", <<"U+1E6D">>>>, <<"U+1E6E", <<"U+1E6F">>>>,
     <<"U+1E70", <<"U+1E71">>>>, <<"U+1E72", <<"U+1E73">>>>,
     <<"U+1E74", <<"U+1E75">>>>, <<"U+1E76", <<"U+1E77">>>>,
     <<"U+1E78", <<"U+1E79">>>>, <<"U+1E7A", <<"U+1E7B">>>>,
     <<"U+1E7C", <<"U+1E7D">>>>, <<"U+1E7E", <<"U+1E7F">>>>,
     <<"Ẁ", <<"ẁ">>>>, <<"Ẃ", <<"ẃ">>>>, <<"Ẅ", <<"ẅ">>>>, <<"Ẇ", <<"ẇ">>>>,
     <<"Ẉ", <<"ẉ">>>>, <<"Ẋ", <<"ẋ">>>>, <<"Ẍ", <<"ẍ">>>>, <<"Ẏ", <<"ẏ">>>>,
     <<"Ẑ", <<"ẑ">>>>, <<"Ẓ", <<"ẓ">>>>, <<"Ẕ", <<"ẕ">>>>, <<"ẞ", <<"ß">>>>,
     <<"Ạ", <<"ạ">>>>, <<"Ả", <<"ả">>>>, <<"Ấ", <<"ấ">>>>, <<"Ầ", <<"ầ">>>>,
     <<"Ẩ", <<"ẩ">>>>, <<"Ẫ", <<"ẫ">>>>, <<"Ậ", <<"ậ">>>>, <<"Ắ", <<"ắ">>>>,
     <<"Ằ", <<"ằ">>>>, <<"Ẳ", <<"ẳ">>>>, <<"Ẵ", <<"ẵ">>>>, <<"Ặ", <<"ặ">>>>,
     <<"Ẹ", <<"ẹ">>>>, <<"Ẻ", <<"ẻ">>>>, <<"Ẽ", <<"ẽ">>>>, <<"Ế", <<"ế">>>>,
     <<"Ề", <<"ề">>>>, <<"Ể", <<"ể">>>>, <<"Ễ", <<"ễ">>>>, <<"Ệ", <<"ệ">>>>,
     <<"Ỉ", <<"ỉ">>>>, <<"Ị", <<"ị">>>>, <<"Ọ", <<"ọ">>>>, <<"Ỏ", <<"ỏ">>>>,
     <<"Ố", <<"ố">>>>, <<"Ồ", <<"ồ">>>>, <<"Ổ", <<"ổ">>>>, <<"Ỗ", <<"ỗ">>>>,
     <<"Ộ", <<"ộ">>>>, <<"Ớ", <<"ớ">>>>, <<"Ờ", <<"ờ">>>>, <<"Ở", <<"ở">>>>,
     <<"Ỡ", <<"ỡ">>>>, <<"Ợ", <<"ợ">>>>, <<"Ụ", <<"ụ">>>>, <<"Ủ", <<"ủ">>>>,
     <<"Ứ", <<"ứ">>>>, <<"Ừ", <<"ừ">>>>, <<"Ử", <<"ử">>>>, <<"Ữ", <<"ữ">>>>,
     <<"Ự", <<"ự">>>>, <<"Ỳ", <<"ỳ">>>>, <<"Ỵ", <<"ỵ">>>>, <<"Ỷ", <<"ỷ">>>>,
     <<"Ỹ", <<"ỹ">>>>, <<"Ỻ", <<"ỻ">>>>, <<"Ỽ", <<"ỽ">>>>, <<"Ỿ", <<"ỿ">>>>,
     <<"U+1F08", <<"U+1F00">>>>, <<"U+1F09", <<"U+1F01">>>>,
     <<"U+1F0A", <<"U+1F02">>>>, <<"U+1F0B", <<"U+1F03">>>>,
     <<"U+1F0C", <<"U+1F04">>>>, <<"U+1F0D", <<"U+1F05">>>>,
     <<"U+1F0E", <<"U+1F06">>>>, <<"U+1F0F", <<"U+1F07">>>>,
     <<"U+1F18", <<"U+1F10">>>>, <<"U+1F19", <<"U+1F11">>>>,
     <<"U+1F1A", <<"U+1F12">>>>, <<"U+1F1B", <<"U+1F13">>>>,
     <<"U+1F1C", <<"U+1F14">>>>, <<"U+1F1D", <<"U+1F15">>>>,
     <<"U+1F28", <<"U+1F20">>>>, <<"U+1F29", <<"U+1F21">>>>,
     <<"U+1F2A", <<"U+1F22">>>>, <<"U+1F2B", <<"U+1F23">>>>,
     <<"U+1F2C", <<"U+1F24">>>>, <<"U+1F2D", <<"U+1F25">>>>,
     <<"U+1F2E", <<"U+1F26">>>>, <<"U+1F2F", <<"U+1F27">>>>,
     <<"U+1F38", <<"U+1F30">>>>, <<"U+1F39", <<"U+1F31">>>>,
     <<"U+1F3A", <<"U+1F32">>>>, <<"U+1F3B", <<"U+1F33">>>>,
     <<"U+1F3C", <<"U+1F34">>>>, <<"U+1F3D", <<"U+1F35">>>>,
     <<"U+1F3E", <<"U+1F36">>>>, <<"U+1F3F", <<"U+1F37">>>>,
     <<"U+1F48", <<"U+1F40">>>>, <<"U+1F49", <<"U+1F41">>>>,
     <<"U+1F4A", <<"U+1F42">>>>, <<"U+1F4B", <<"U+1F43">>>>,
     <<"U+1F4C", <<"U+1F44">>>>, <<"U+1F4D", <<"U+1F45">>>>,
     <<"U+1F59", <<"U+1F51">>>>, <<"U+1F5B", <<"U+1F53">>>>,
     <<"U+1F5D", <<"U+1F55">>>>, <<"U+1F5F", <<"U+1F57">>>>,
     <<"U+1F68", <<"U+1F60">>>>, <<"U+1F69", <<"U+1F61">>>>,
     <<"U+1F6A", <<"U+1F62">>>>, <<"U+1F6B", <<"U+1F63">>>>,
     <<"U+1F6C", <<"U+1F64">>>>, <<"U+1F6D", <<"U+1F65">>>>,
     <<"U+1F6E", <<"U+1F66">>>>, <<"U+1F6F", <<"U+1F67">>>>,
     <<"ᾈ", <<"ᾀ">>>>, <<"ᾉ", <<"ᾁ">>>>, <<"ᾊ", <<"ᾂ">>>>, <<"ᾋ", <<"ᾃ">>>>,
     <<"ᾌ", <<"ᾄ">>>>, <<"ᾍ", <<"ᾅ">>>>, <<"ᾎ", <<"ᾆ">>>>, <<"ᾏ", <<"ᾇ">>>>,
     <<"ᾘ", <<"ᾐ">>>>, <<"ᾙ", <<"ᾑ">>>>, <<"ᾚ", <<"ᾒ">>>>, <<"ᾛ", <<"ᾓ">>>>,
     <<"ᾜ", <<"ᾔ">>>>, <<"ᾝ", <<"ᾕ">>>>, <<"ᾞ", <<"ᾖ">>>>, <<"ᾟ", <<"ᾗ">>>>,
     <<"ᾨ", <<"ᾠ">>>>, <<"ᾩ", <<"ᾡ">>>>, <<"ᾪ", <<"ᾢ">>>>, <<"ᾫ", <<"ᾣ">>>>,
     <<"ᾬ", <<"ᾤ">>>>, <<"ᾭ", <<"ᾥ">>>>, <<"ᾮ", <<"ᾦ">>>>, <<"ᾯ", <<"ᾧ">>>>,
     <<"Ᾰ", <<"ᾰ">>>>, <<"Ᾱ", <<"ᾱ">>>>, <<"Ὰ", <<"U+1F70">>>>,
     <<"Ά", <<"U+1F71">>>>, <<"ᾼ", <<"ᾳ">>>>, <<"Ὲ", <<"U+1F72">>>>,
     <<"Έ", <<"U+1F73">>>>, <<"Ὴ", <<"U+1F74">>>>, <<"Ή", <<"U+1F75">>>>,
     <<"ῌ", <<"ῃ">>>>, <<"Ῐ", <<"ῐ">>>>, <<"Ῑ", <<"ῑ">>>>,
     <<"Ὶ", <<"U+1F76">>>>, <<"Ί", <<"U+1F77">>>>, <<"Ῠ", <<"ῠ">>>>,
     <<"Ῡ", <<"ῡ">>>>, <<"Ὺ", <<"U+1F7A">>>>, <<"Ύ", <<"U+1F7B">>>>,
     <<"Ῥ", <<"ῥ">>>>, <<"Ὸ", <<"U+1F78">>>>, <<"Ό", <<"U+1F79">>>>,
     <<"Ὼ", <<"U+1F7C">>>>, <<"Ώ", <<"U+1F7D">>>>, <<"ῼ", <<"ῳ">>>>,
     <<"U+2126", <<"ω">>>>, <<"U+212A", <<"k">>>>, <<"U+212B", <<"å">>>>,
     <<"U+2132", <<"U+214E">>>>, <<"U+2160", <<"U+2170">>>>,
     <<"U+2161", <<"U+2171">>>>, <<"U+2162", <<"U+2172">>>>,
     <<"U+2163", <<"U+2173">>>>, <<"U+2164", <<"U+2174">>>>,
     <<"U+2165", <<"U+2175">>>>, <<"U+2166", <<"U+2176">>>>,
     <<"U+2167", <<"U+2177">>>>, <<"U+2168", <<"U+2178">>>>,
     <<"U+2169", <<"U+2179">>>>, <<"U+216A", <<"U+217A">>>>,
     <<"U+216B", <<"U+217B">>>>, <<"U+216C", <<"U+217C">>>>,
     <<"U+216D", <<"U+217D">>>>, <<"U+216E", <<"U+217E">>>>,
     <<"U+216F", <<"U+217F">>>>, <<"Ↄ", <<"ↄ">>>>, <<"Ⓐ", <<"ⓐ">>>>,
     <<"Ⓑ", <<"ⓑ">>>>, <<"Ⓒ", <<"ⓒ">>>>, <<"Ⓓ", <<"ⓓ">>>>, <<"Ⓔ", <<"ⓔ">>>>,
     <<"Ⓕ", <<"ⓕ">>>>, <<"Ⓖ", <<"ⓖ">>>>, <<"Ⓗ", <<"ⓗ">>>>, <<"Ⓘ", <<"ⓘ">>>>,
     <<"Ⓙ", <<"ⓙ">>>>, <<"Ⓚ", <<"ⓚ">>>>, <<"Ⓛ", <<"ⓛ">>>>, <<"Ⓜ", <<"ⓜ">>>>,
     <<"Ⓝ", <<"ⓝ">>>>, <<"Ⓞ", <<"ⓞ">>>>, <<"Ⓟ", <<"ⓟ">>>>, <<"Ⓠ", <<"ⓠ">>>>,
     <<"Ⓡ", <<"ⓡ">>>>, <<"Ⓢ", <<"ⓢ">>>>, <<"Ⓣ", <<"ⓣ">>>>, <<"Ⓤ", <<"ⓤ">>>>,
     <<"Ⓥ", <<"ⓥ">>>>, <<"Ⓦ", <<"ⓦ">>>>, <<"Ⓧ", <<"ⓧ">>>>, <<"Ⓨ", <<"ⓨ">>>>,
     <<"Ⓩ", <<"ⓩ">>>>, <<"U+2C00", <<"U+2C30">>>>,
     <<"U+2C01", <<"U+2C31">>>>, <<"U+2C02", <<"U+2C32">>>>,
     <<"U+2C03", <<"U+2C33">>>>, <<"U+2C04", <<"U+2C34">>>>,
     <<"U+2C05", <<"U+2C35">>>>, <<"U+2C06", <<"U+2C36">>>>,
     <<"U+2C07", <<"U+2C37">>>>, <<"U+2C08", <<"U+2C38">>>>,
     <<"U+2C09", <<"U+2C39">>>>, <<"U+2C0A", <<"U+2C3A">>>>,
     <<"U+2C0B", <<"U+2C3B">>>>, <<"U+2C0C", <<"U+2C3C">>>>,
     <<"U+2C0D", <<"U+2C3D">>>>, <<"U+2C0E", <<"U+2C3E">>>>,
     <<"U+2C0F", <<"U+2C3F">>>>, <<"U+2C10", <<"U+2C40">>>>,
     <<"U+2C11", <<"U+2C41">>>>, <<"U+2C12", <<"U+2C42">>>>,
     <<"U+2C13", <<"U+2C43">>>>, <<"U+2C14", <<"U+2C44">>>>,
     <<"U+2C15", <<"U+2C45">>>>, <<"U+2C16", <<"U+2C46">>>>,
     <<"U+2C17", <<"U+2C47">>>>, <<"U+2C18", <<"U+2C48">>>>,
     <<"U+2C19", <<"U+2C49">>>>, <<"U+2C1A", <<"U+2C4A">>>>,
     <<"U+2C1B", <<"U+2C4B">>>>, <<"U+2C1C", <<"U+2C4C">>>>,
     <<"U+2C1D", <<"U+2C4D">>>>, <<"U+2C1E", <<"U+2C4E">>>>,
     <<"U+2C1F", <<"U+2C4F">>>>, <<"U+2C20", <<"U+2C50">>>>,
     <<"U+2C21", <<"U+2C51">>>>, <<"U+2C22", <<"U+2C52">>>>,
     <<"U+2C23", <<"U+2C53">>>>, <<"U+2C24", <<"U+2C54">>>>,
     <<"U+2C25", <<"U+2C55">>>>, <<"U+2C26", <<"U+2C56">>>>,
     <<"U+2C27", <<"U+2C57">>>>, <<"U+2C28", <<"U+2C58">>>>,
     <<"U+2C29", <<"U+2C59">>>>, <<"U+2C2A", <<"U+2C5A">>>>,
     <<"U+2C2B", <<"U+2C5B">>>>, <<"U+2C2C", <<"U+2C5C">>>>,
     <<"U+2C2D", <<"U+2C5D">>>>, <<"U+2C2E", <<"U+2C5E">>>>,
     <<"U+2C2F", <<"U+2C5F">>>>, <<"U+2C60", <<"U+2C61">>>>,
     <<"U+2C62", <<"U+026B">>>>, <<"U+2C63", <<"U+1D7D">>>>,
     <<"U+2C64", <<"U+027D">>>>, <<"U+2C67", <<"U+2C68">>>>,
     <<"U+2C69", <<"U+2C6A">>>>, <<"U+2C6B", <<"U+2C6C">>>>,
     <<"U+2C6D", <<"U+0251">>>>, <<"U+2C6E", <<"U+0271">>>>,
     <<"U+2C6F", <<"U+0250">>>>, <<"U+2C70", <<"U+0252">>>>,
     <<"U+2C72", <<"U+2C73">>>>, <<"U+2C75", <<"U+2C76">>>>,
     <<"U+2C7E", <<"U+023F">>>>, <<"U+2C7F", <<"U+0240">>>>,
     <<"Ⲁ", <<"ⲁ">>>>, <<"Ⲃ", <<"ⲃ">>>>, <<"Ⲅ", <<"ⲅ">>>>, <<"Ⲇ", <<"ⲇ">>>>,
     <<"Ⲉ", <<"ⲉ">>>>, <<"Ⲋ", <<"ⲋ">>>>, <<"Ⲍ", <<"ⲍ">>>>, <<"Ⲏ", <<"ⲏ">>>>,
     <<"Ⲑ", <<"ⲑ">>>>, <<"Ⲓ", <<"ⲓ">>>>, <<"Ⲕ", <<"ⲕ">>>>, <<"Ⲗ", <<"ⲗ">>>>,
     <<"Ⲙ", <<"ⲙ">>>>, <<"Ⲛ", <<"ⲛ">>>>, <<"Ⲝ", <<"ⲝ">>>>, <<"Ⲟ", <<"ⲟ">>>>,
     <<"Ⲡ", <<"ⲡ">>>>, <<"Ⲣ", <<"ⲣ">>>>, <<"Ⲥ", <<"ⲥ">>>>, <<"Ⲧ", <<"ⲧ">>>>,
     <<"Ⲩ", <<"ⲩ">>>>, <<"Ⲫ", <<"ⲫ">>>>, <<"Ⲭ", <<"ⲭ">>>>, <<"Ⲯ", <<"ⲯ">>>>,
     <<"Ⲱ", <<"ⲱ">>>>, <<"Ⲳ", <<"ⲳ">>>>, <<"Ⲵ", <<"ⲵ">>>>, <<"Ⲷ", <<"ⲷ">>>>,
     <<"Ⲹ", <<"ⲹ">>>>, <<"Ⲻ", <<"ⲻ">>>>, <<"Ⲽ", <<"ⲽ">>>>, <<"Ⲿ", <<"ⲿ">>>>,
     <<"Ⳁ", <<"ⳁ">>>>, <<"Ⳃ", <<"ⳃ">>>>, <<"Ⳅ", <<"ⳅ">>>>, <<"Ⳇ", <<"ⳇ">>>>,
     <<"Ⳉ", <<"ⳉ">>>>, <<"Ⳋ", <<"ⳋ">>>>, <<"Ⳍ", <<"ⳍ">>>>, <<"Ⳏ", <<"ⳏ">>>>,
     <<"Ⳑ", <<"ⳑ">>>>, <<"Ⳓ", <<"ⳓ">>>>, <<"Ⳕ", <<"ⳕ">>>>, <<"Ⳗ", <<"ⳗ">>>>,
     <<"Ⳙ", <<"ⳙ">>>>, <<"Ⳛ", <<"ⳛ">>>>, <<"Ⳝ", <<"ⳝ">>>>, <<"Ⳟ", <<"ⳟ">>>>,
     <<"Ⳡ", <<"ⳡ">>>>, <<"Ⳣ", <<"ⳣ">>>>, <<"Ⳬ", <<"ⳬ">>>>, <<"Ⳮ", <<"ⳮ">>>>,
     <<"Ⳳ", <<"ⳳ">>>>, <<"U+A640", <<"U+A641">>>>,
     <<"U+A642", <<"U+A643">>>>, <<"U+A644", <<"U+A645">>>>,
     <<"U+A646", <<"U+A647">>>>, <<"U+A648", <<"U+A649">>>>,
     <<"U+A64A", <<"U+A64B">>>>, <<"U+A64C", <<"U+A64D">>>>,
     <<"U+A64E", <<"U+A64F">>>>, <<"U+A650", <<"U+A651">>>>,
     <<"U+A652", <<"U+A653">>>>, <<"U+A654", <<"U+A655">>>>,
     <<"U+A656", <<"U+A657">>>>, <<"U+A658", <<"U+A659">>>>,
     <<"U+A65A", <<"U+A65B">>>>, <<"U+A65C", <<"U+A65D">>>>,
     <<"U+A65E", <<"U+A65F">>>>, <<"U+A660", <<"U+A661">>>>,
     <<"U+A662", <<"U+A663">>>>, <<"U+A664", <<"U+A665">>>>,
     <<"U+A666", <<"U+A667">>>>, <<"U+A668", <<"U+A669">>>>,
     <<"U+A66A", <<"U+A66B">>>>, <<"U+A66C", <<"U+A66D">>>>,
     <<"Ꚁ", <<"ꚁ">>>>, <<"Ꚃ", <<"ꚃ">>>>, <<"Ꚅ", <<"ꚅ">>>>, <<"Ꚇ", <<"ꚇ">>>>,
     <<"Ꚉ", <<"ꚉ">>>>, <<"Ꚋ", <<"ꚋ">>>>, <<"Ꚍ", <<"ꚍ">>>>, <<"Ꚏ", <<"ꚏ">>>>,
     <<"Ꚑ", <<"ꚑ">>>>, <<"Ꚓ", <<"ꚓ">>>>, <<"Ꚕ", <<"ꚕ">>>>, <<"Ꚗ", <<"ꚗ">>>>,
     <<"Ꚙ", <<"ꚙ">>>>, <<"Ꚛ", <<"ꚛ">>>>, <<"U+A722", <<"U+A723">>>>,
     <<"U+A724", <<"U+A725">>>>, <<"U+A726", <<"U+A727">>>>,
     <<"U+A728", <<"U+A729">>>>, <<"U+A72A", <<"U+A72B">>>>,
     <<"U+A72C", <<"U+A72D">>>>, <<"U+A72E", <<"U+A72F">>>>,
     <<"U+A732", <<"U+A733">>>>, <<"U+A734", <<"U+A735">>>>,
     <<"U+A736", <<"U+A737">>>>, <<"U+A738", <<"U+A739">>>>,
     <<"U+A73A", <<"U+A73B">>>>, <<"U+A73C", <<"U+A73D">>>>,
     <<"U+A73E", <<"U+A73F">>>>, <<"U+A740", <<"U+A741">>>>,
     <<"U+A742", <<"U+A743">>>>, <<"U+A744", <<"U+A745">>>>,
     <<"U+A746", <<"U+A747">>>>, <<"U+A748", <<"U+A749">>>>,
     <<"U+A74A", <<"U+A74B">>>>, <<"U+A74C", <<"U+A74D">>>>,
     <<"U+A74E", <<"U+A74F">>>>, <<"U+A750", <<"U+A751">>>>,
     <<"U+A752", <<"U+A753">>>>, <<"U+A754", <<"U+A755">>>>,
     <<"U+A756", <<"U+A757">>>>, <<"U+A758", <<"U+A759">>>>,
     <<"U+A75A", <<"U+A75B">>>>, <<"U+A75C", <<"U+A75D">>>>,
     <<"U+A75E", <<"U+A75F">>>>, <<"U+A760", <<"U+A761">>>>,
     <<"U+A762", <<"U+A763">>>>, <<"U+A764", <<"U+A765">>>>,
     <<"U+A766", <<"U+A767">>>>, <<"U+A768", <<"U+A769">>>>,
     <<"U+A76A", <<"U+A76B">>>>, <<"U+A76C", <<"U+A76D">>>>,
     <<"U+A76E", <<"U+A76F">>>>, <<"U+A779", <<"U+A77A">>>>,
     <<"U+A77B", <<"U+A77C">>>>, <<"U+A77D", <<"U+1D79">>>>,
     <<"U+A77E", <<"U+A77F">>>>, <<"Ꞁ", <<"ꞁ">>>>, <<"Ꞃ", <<"ꞃ">>>>,
     <<"Ꞅ", <<"ꞅ">>>>, <<"Ꞇ", <<"ꞇ">>>>, <<"Ꞌ", <<"ꞌ">>>>,
     <<"Ɥ", <<"U+0265">>>>, <<"Ꞑ", <<"ꞑ">>>>, <<"Ꞓ", <<"ꞓ">>>>,
     <<"Ꞗ", <<"ꞗ">>>>, <<"Ꞙ", <<"ꞙ">>>>, <<"Ꞛ", <<"ꞛ">>>>, <<"Ꞝ", <<"ꞝ">>>>,
     <<"Ꞟ", <<"ꞟ">>>>, <<"Ꞡ", <<"ꞡ">>>>, <<"Ꞣ", <<"ꞣ">>>>, <<"Ꞥ", <<"ꞥ">>>>,
     <<"Ꞧ", <<"ꞧ">>>>, <<"Ꞩ", <<"ꞩ">>>>, <<"Ɦ", <<"U+0266">>>>,
     <<"Ɜ", <<"U+025C">>>>, <<"Ɡ", <<"U+0261">>>>, <<"Ɬ", <<"U+026C">>>>,
     <<"Ɪ", <<"U+026A">>>>, <<"Ʞ", <<"ʞ">>>>, <<"Ʇ", <<"ʇ">>>>,
     <<"Ʝ", <<"ʝ">>>>, <<"Ꭓ", <<"U+AB53">>>>, <<"Ꞵ", <<"ꞵ">>>>,
     <<"Ꞷ", <<"ꞷ">>>>, <<"Ꞹ", <<"ꞹ">>>>, <<"Ꞻ", <<"ꞻ">>>>, <<"Ꞽ", <<"ꞽ">>>>,
     <<"Ꞿ", <<"ꞿ">>>>, <<"Ꟁ", <<"ꟁ">>>>, <<"Ꟃ", <<"ꟃ">>>>, <<"Ꞔ", <<"ꞔ">>>>,
     <<"Ʂ", <<"ʂ">>>>, <<"Ᶎ", <<"ᶎ">>>>, <<"Ꟈ", <<"ꟈ">>>>, <<"Ꟊ", <<"ꟊ">>>>,
     <<"Ꟑ", <<"ꟑ">>>>, <<"Ꟗ", <<"ꟗ">>>>, <<"Ꟙ", <<"ꟙ">>>>, <<"Ꟶ", <<"ꟶ">>>>,
     <<"U+FF21", <<"U+FF41">>>>, <<"U+FF22", <<"U+FF42">>>>,
     <<"U+FF23", <<"U+FF43">>>>, <<"U+FF24", <<"U+FF44">>>>,
     <<"U+FF25", <<"U+FF45">>>>, <<"U+FF26", <<"U+FF46">>>>,
     <<"U+FF27", <<"U+FF47">>>>, <<"U+FF28", <<"U+FF48">>>>,
     <<"U+FF29", <<"U+FF49">>>>, <<"U+FF2A", <<"U+FF4A">>>>,
     <<"U+FF2B", <<"U+FF4B">>>>, <<"U+FF2C", <<"U+FF4C">>>>,
     <<"U+FF2D", <<"U+FF4D">>>>, <<"U+FF2E", <<"U+FF4E">>>>,
     <<"U+FF2F", <<"U+FF4F">>>>, <<"U+FF30", <<"U+FF50">>>>,
     <<"U+FF31", <<"U+FF51">>>>, <<"U+FF32", <<"U+FF52">>>>,
     <<"U+FF33", <<"U+FF53">>>>, <<"U+FF34", <<"U+FF54">>>>,
     <<"U+FF35", <<"U+FF55">>>>, <<"U+FF36", <<"U+FF56">>>>,
     <<"U+FF37", <<"U+FF57">>>>, <<"U+FF38", <<"U+FF58">>>>,
     <<"U+FF39", <<"U+FF59">>>>, <<"U+FF3A", <<"U+FF5A">>>>,
     <<"U+10400", <<"U+10428">>>>, <<"U+10401", <<"U+10429">>>>,
     <<"U+10402", <<"U+1042A">>>>, <<"U+10403", <<"U+1042B">>>>,
     <<"U+10404", <<"U+1042C">>>>, <<"U+10405", <<"U+1042D">>>>,
     <<"U+10406", <<"U+1042E">>>>, <<"U+10407", <<"U+1042F">>>>,
     <<"U+10408", <<"U+10430">>>>, <<"U+10409", <<"U+10431">>>>,
     <<"U+1040A", <<"U+10432">>>>, <<"U+1040B", <<"U+10433">>>>,
     <<"U+1040C", <<"U+10434">>>>, <<"U+1040D", <<"U+10435">>>>,
     <<"U+1040E", <<"U+10436">>>>, <<"U+1040F", <<"U+10437">>>>,
     <<"U+10410", <<"U+10438">>>>, <<"U+10411", <<"U+10439">>>>,
     <<"U+10412", <<"U+1043A">>>>, <<"U+10413", <<"U+1043B">>>>,
     <<"U+10414", <<"U+1043C">>>>, <<"U+10415", <<"U+1043D">>>>,
     <<"U+10416", <<"U+1043E">>>>, <<"U+10417", <<"U+1043F">>>>,
     <<"U+10418", <<"U+10440">>>>, <<"U+10419", <<"U+10441">>>>,
     <<"U+1041A", <<"U+10442">>>>, <<"U+1041B", <<"U+10443">>>>,
     <<"U+1041C", <<"U+10444">>>>, <<"U+1041D", <<"U+10445">>>>,
     <<"U+1041E", <<"U+10446">>>>, <<"U+1041F", <<"U+10447">>>>,
     <<"U+10420", <<"U+10448">>>>, <<"U+10421", <<"U+10449">>>>,
     <<"U+10422", <<"U+1044A">>>>, <<"U+10423", <<"U+1044B">>>>,
     <<"U+10424", <<"U+1044C">>>>, <<"U+10425", <<"U+1044D">>>>,
     <<"U+10426", <<"U+1044E">>>>, <<"U+10427", <<"U+1044F">>>>,
     <<"U+104B0", <<"U+104D8">>>>, <<"U+104B1", <<"U+104D9">>>>,
     <<"U+104B2", <<"U+104DA">>>>, <<"U+104B3", <<"U+104DB">>>>,
     <<"U+104B4", <<"U+104DC">>>>, <<"U+104B5", <<"U+104DD">>>>,
     <<"U+104B6", <<"U+104DE">>>>, <<"U+104B7", <<"U+104DF">>>>,
     <<"U+104B8", <<"U+104E0">>>>, <<"U+104B9", <<"U+104E1">>>>,
     <<"U+104BA", <<"U+104E2">>>>, <<"U+104BB", <<"U+104E3">>>>,
     <<"U+104BC", <<"U+104E4">>>>, <<"U+104BD", <<"U+104E5">>>>,
     <<"U+104BE", <<"U+104E6">>>>, <<"U+104BF", <<"U+104E7">>>>,
     <<"U+104C0", <<"U+104E8">>>>, <<"U+104C1", <<"U+104E9">>>>,
     <<"U+104C2", <<"U+104EA">>>>, <<"U+104C3", <<"U+104EB">>>>,
     <<"U+104C4", <<"U+104EC">>>>, <<"U+104C5", <<"U+104ED">>>>,
     <<"U+104C6", <<"U+104EE">>>>, <<"U+104C7", <<"U+104EF">>>>,
     <<"U+104C8", <<"U+104F0">>>>, <<"U+104C9", <<"U+104F1">>>>,
     <<"U+104CA", <<"U+104F2">>>>, <<"U+104CB", <<"U+104F3">>>>,
     <<"U+104CC", <<"U+104F4">>>>, <<"U+104CD", <<"U+104F5">>>>,
     <<"U+104CE", <<"U+104F6">>>>, <<"U+104CF", <<"U+104F7">>>>,
     <<"U+104D0", <<"U+104F8">>>>, <<"U+104D1", <<"U+104F9">>>>,
     <<"U+104D2", <<"U+104FA">>>>, <<"U+104D3", <<"U+104FB">>>>,
     <<"U+10570", <<"U+10597">>>>, <<"U+10571", <<"U+10598">>>>,
     <<"U+10572", <<"U+10599">>>>, <<"U+10573", <<"U+1059A">>>>,
     <<"U+10574", <<"U+1059B">>>>, <<"U+10575", <<"U+1059C">>>>,
     <<"U+10576", <<"U+1059D">>>>, <<"U+10577", <<"U+1059E">>>>,
     <<"U+10578", <<"U+1059F">>>>, <<"U+10579", <<"U+105A0">>>>,
     <<"U+1057A", <<"U+105A1">>>>, <<"U+1057C", <<"U+105A3">>>>,
     <<"U+1057D", <<"U+105A4">>>>, <<"U+1057E", <<"U+105A5">>>>,
     <<"U+1057F", <<"U+105A6">>>>, <<"U+10580", <<"U+105A7">>>>,
     <<"U+10581", <<"U+105A8">>>>, <<"U+10582", <<"U+105A9">>>>,
     <<"U+10583", <<"U+105AA">>>>, <<"U+10584", <<"U+105AB">>>>,
     <<"U+10585", <<"U+105AC">>>>, <<"U+10586", <<"U+105AD">>>>,
     <<"U+10587", <<"U+105AE">>>>, <<"U+10588", <<"U+105AF">>>>,
     <<"U+10589", <<"U+105B0">>>>, <<"U+1058A", <<"U+105B1">>>>,
     <<"U+1058C", <<"U+105B3">>>>, <<"U+1058D", <<"U+105B4">>>>,
     <<"U+1058E", <<"U+105B5">>>>, <<"U+1058F", <<"U+105B6">>>>,
     <<"U+10590", <<"U+105B7">>>>, <<"U+10591", <<"U+105B8">>>>,
     <<"U+10592", <<"U+105B9">>>>, <<"U+10594", <<"U+105BB">>>>,
     <<"U+10595", <<"U+105BC">>>>, <<"U+10C80", <<"U+10CC0">>>>,
     <<"U+10C81", <<"U+10CC1">>>>, <<"U+10C82", <<"U+10CC2">>>>,
     <<"U+10C83", <<"U+10CC3">>>>, <<"U+10C84", <<"U+10CC4">>>>,
     <<"U+10C85", <<"U+10CC5">>>>, <<"U+10C86", <<"U+10CC6">>>>,
     <<"U+10C87", <<"U+10CC7">>>>, <<"U+10C88", <<"U+10CC8">>>>,
     <<"U+10C89", <<"U+10CC9">>>>, <<"U+10C8A", <<"U+10CCA">>>>,
     <<"U+10C8B", <<"U+10CCB">>>>, <<"U+10C8C", <<"U+10CCC">>>>,
     <<"U+10C8D", <<"U+10CCD">>>>, <<"U+10C8E", <<"U+10CCE">>>>,
     <<"U+10C8F", <<"U+10CCF">>>>, <<"U+10C90", <<"U+10CD0">>>>,
     <<"U+10C91", <<"U+10CD1">>>>, <<"U+10C92", <<"U+10CD2">>>>,
     <<"U+10C93", <<"U+10CD3">>>>, <<"U+10C94", <<"U+10CD4">>>>,
     <<"U+10C95", <<"U+10CD5">>>>, <<"U+10C96", <<"U+10CD6">>>>,
     <<"U+10C97", <<"U+10CD7">>>>, <<"U+10C98", <<"U+10CD8">>>>,
     <<"U+10C99", <<"U+10CD9">>>>, <<"U+10C9A", <<"U+10CDA">>>>,
     <<"U+10C9B", <<"U+10CDB">>>>, <<"U+10C9C", <<"U+10CDC">>>>,
     <<"U+10C9D", <<"U+10CDD">>>>, <<"U+10C9E", <<"U+10CDE">>>>,
     <<"U+10C9F", <<"U+10CDF">>>>, <<"U+10CA0", <<"U+10CE0">>>>,
     <<"U+10CA1", <<"U+10CE1">>>>, <<"U+10CA2", <<"U+10CE2">>>>,
     <<"U+10CA3", <<"U+10CE3">>>>, <<"U+10CA4", <<"U+10CE4">>>>,
     <<"U+10CA5", <<"U+10CE5">>>>, <<"U+10CA6", <<"U+10CE6">>>>,
     <<"U+10CA7", <<"U+10CE7">>>>, <<"U+10CA8", <<"U+10CE8">>>>,
     <<"U+10CA9", <<"U+10CE9">>>>, <<"U+10CAA", <<"U+10CEA">>>>,
     <<"U+10CAB", <<"U+10CEB">>>>, <<"U+10CAC", <<"U+10CEC">>>>,
     <<"U+10CAD", <<"U+10CED">>>>, <<"U+10CAE", <<"U+10CEE">>>>,
     <<"U+10CAF", <<"U+10CEF">>>>, <<"U+10CB0", <<"U+10CF0">>>>,
     <<"U+10CB1", <<"U+10CF1">>>>, <<"U+10CB2", <<"U+10CF2">>>>,
     <<"U+118A0", <<"U+118C0">>>>, <<"U+118A1", <<"U+118C1">>>>,
     <<"U+118A2", <<"U+118C2">>>>, <<"U+118A3", <<"U+118C3">>>>,
     <<"U+118A4", <<"U+118C4">>>>, <<"U+118A5", <<"U+118C5">>>>,
     <<"U+118A6", <<"U+118C6">>>>, <<"U+118A7", <<"U+118C7">>>>,
     <<"U+118A8", <<"U+118C8">>>>, <<"U+118A9", <<"U+118C9">>>>,
     <<"U+118AA", <<"U+118CA">>>>, <<"U+118AB", <<"U+118CB">>>>,
     <<"U+118AC", <<"U+118CC">>>>, <<"U+118AD", <<"U+118CD">>>>,
     <<"U+118AE", <<"U+118CE">>>>, <<"U+118AF", <<"U+118CF">>>>,
     <<"U+118B0", <<"U+118D0">>>>, <<"U+118B1", <<"U+118D1">>>>,
     <<"U+118B2", <<"U+118D2">>>>, <<"U+118B3", <<"U+118D3">>>>,
     <<"U+118B4", <<"U+118D4">>>>, <<"U+118B5", <<"U+118D5">>>>,
     <<"U+118B6", <<"U+118D6">>>>, <<"U+118B7", <<"U+118D7">>>>,
     <<"U+118B8", <<"U+118D8">>>>, <<"U+118B9", <<"U+118D9">>>>,
     <<"U+118BA", <<"U+118DA">>>>, <<"U+118BB", <<"U+118DB">>>>,
     <<"U+118BC", <<"U+118DC">>>>, <<"U+118BD", <<"U+118DD">>>>,
     <<"U+118BE", <<"U+118DE">>>>, <<"U+118BF", <<"U+118DF">>>>,
     <<"U+16E40", <<"U+16E60">>>>, <<"U+16E41", <<"U+16E61">>>>,
     <<"U+16E42", <<"U+16E62">>>>, <<"U+16E43", <<"U+16E63">>>>,
     <<"U+16E44", <<"U+16E64">>>>, <<"U+16E45", <<"U+16E65">>>>,
     <<"U+16E46", <<"U+16E66">>>>, <<"U+16E47", <<"U+16E67">>>>,
     <<"U+16E48", <<"U+16E68">>>>, <<"U+16E49", <<"U+16E69">>>>,
     <<"U+16E4A", <<"U+16E6A">>>>, <<"U+16E4B", <<"U+16E6B">>>>,
     <<"U+16E4C", <<"U+16E6C">>>>, <<"U+16E4D", <<"U+16E6D">>>>,
     <<"U+16E4E", <<"U+16E6E">>>>, <<"U+16E4F", <<"U+16E6F">>>>,
     <<"U+16E50", <<"U+16E70">>>>, <<"U+16E51", <<"U+16E71">>>>,
     <<"U+16E52", <<"U+16E72">>>>, <<"U+16E53", <<"U+16E73">>>>,
     <<"U+16E54", <<"U+16E74">>>>, <<"U+16E55", <<"U+16E75">>>>,
     <<"U+16E56", <<"U+16E76">>>>, <<"U+16E57", <<"U+16E77">>>>,
     <<"U+16E58", <<"U+16E78">>>>, <<"U+16E59", <<"U+16E79">>>>,
     <<"U+16E5A", <<"U+16E7A">>>>, <<"U+16E5B", <<"U+16E7B">>>>,
     <<"U+16E5C", <<"U+16E7C">>>>, <<"U+16E5D", <<"U+16E7D">>>>,
     <<"U+16E5E", <<"U+16E7E">>>>, <<"U+16E5F", <<"U+16E7F">>>>,
     <<"U+1E900", <<"U+1E922">>>>, <<"U+1E901", <<"U+1E923">>>>,
     <<"U+1E902", <<"U+1E924">>>>, <<"U+1E903", <<"U+1E925">>>>,
     <<"U+1E904", <<"U+1E926">>>>, <<"U+1E905", <<"U+1E927">>>>,
     <<"U+1E906", <<"U+1E928">>>>, <<"U+1E907", <<"U+1E929">>>>,
     <<"U+1E908", <<"U+1E92A">>>>, <<"U+1E909", <<"U+1E92B">>>>,
     <<"U+1E90A", <<"U+1E92C">>>>, <<"U+1E90B", <<"U+1E92D">>>>,
     <<"U+1E90C", <<"U+1E92E">>>>, <<"U+1E90D", <<"U+1E92F">>>>,
     <<"U+1E90E", <<"U+1E930">>>>, <<"U+1E90F", <<"U+1E931">>>>,
     <<"U+1E910", <<"U+1E932">>>>, <<"U+1E911", <<"U+1E933">>>>,
     <<"U+1E912", <<"U+1E934">>>>, <<"U+1E913", <<"U+1E935">>>>,
     <<"U+1E914", <<"U+1E936">>>>, <<"U+1E915", <<"U+1E937">>>>,
     <<"U+1E916", <<"U+1E938">>>>, <<"U+1E917", <<"U+1E939">>>>,
     <<"U+1E918", <<"U+1E93A">>>>, <<"U+1E919", <<"U+1E93B">>>>,
     <<"U+1E91A", <<"U+1E93C">>>>, <<"U+1E91B", <<"U+1E93D">>>>,
     <<"U+1E91C", <<"U+1E93E">>>>, <<"U+1E91D", <<"U+1E93F">>>>,
     <<"U+1E91E", <<"U+1E940">>>>, <<"U+1E91F", <<"U+1E941">>>>,
     <<"U+1E920", <<"U+1E942">>>>, <<"U+1E921", <<"U+1E943">>>>
    }

CaseIgnorable ==
    {
     "'", ".", ":", "^", "U+0060", "¨", "­", "¯", "´", "·", "¸", "ʰ", "ʱ",
     "ʲ", "ʳ", "ʴ", "ʵ", "ʶ", "ʷ", "ʸ", "ʹ", "ʺ", "ʻ", "ʼ", "ʽ", "ʾ", "ʿ",
     "ˀ", "ˁ", "˂", "˃", "˄", "˅", "ˆ", "ˇ", "ˈ", "ˉ", "ˊ", "ˋ", "ˌ", "ˍ",
     "ˎ", "ˏ", "ː", "ˑ", "˒", "˓", "˔", "˕", "˖", "˗", "˘", "˙", "˚", "˛",
     "˜", "˝", "˞", "˟", "ˠ", "ˡ", "ˢ", "ˣ", "ˤ", "˥", "˦", "˧", "˨", "˩",
     "˪", "˫", "ˬ", "˭", "ˮ", "˯", "˰", "˱", "˲", "˳", "˴", "˵", "˶", "˷",
     "˸", "˹", "˺", "˻", "˼", "˽", "˾", "˿", "U+0300", "U+0301", "U+0302",
     "U+0303", "U+0304", "U+0305", "U+0306", "U+0307", "U+0308", "U+0309",
     "U+030A", "U+030B", "U+030C", "U+030D", "U+030E", "U+030F", "U+0310",
     "U+0311", "U+0312", "U+0313", "U+0314", "U+0315", "U+0316", "U+0317",
     "U+0318", "U+0319", "U+031A", "U+031B", "U+031C", "U+031D", "U+031E",
     "U+031F", "U+0320", "U+0321", "U+0322", "U+0323", "U+0324", "U+0325",
     "U+0326", "U+0327", "U+0328", "U+0329", "U+032A", "U+032B", "U+032C",
     "U+032D", "U+032E", "U+032F", "U+0330", "U+0331", "U+0332", "U+0333",
     "U+0334", "U+0335", "U+0336", "U+0337", "U+0338", "U+0339", "U+033A",
     "U+033B", "U+033C", "U+033D", "U+033E", "U+033F", "U+0340", "U+0341",
     "U+0342", "U+0343", "U+0344", "U+0345", "U+0346", "U+0347", "U+0348",
     "U+0349", "U+034A", "U+034B", "U+034C", "U+034D", "U+034E", "U+034F",
     "U+0350", "U+0351", "U+0352", "U+0353", "U+0354", "U+0355", "U+0356",
     "U+0357", "U+0358", "U+0359", "U+035A", "U+035B", "U+035C", "U+035D",
     "U+035E", "U+035F", "U+0360", "U+0361", "U+0362", "U+0363", "U+0364",
     "U+0365", "U+0366", "U+0367", "U+0368", "U+0369", "U+036A", "U+036B",
     "U+036C", "U+036D", "U+036E", "U+036F", "U+0374", "U+0375", "U+037A",
     "΄", "΅", "·", "҃", "҄", "҅", "҆", "҇", "҈", "҉", "U+0559", "U+055F",
     "֑", "֒", "֓", "֔", "֕", "֖", "֗", "֘", "֙", "֚", "֛", "֜", "֝", "֞",
     "֟", "֠", "֡", "֢", "֣", "֤", "֥", "֦", "֧", "֨", "֩", "֪", "֫", "֬",
     "֭", "֮", "֯", "ְ", "ֱ", "ֲ", "ֳ", "ִ", "ֵ", "ֶ", "ַ", "ָ", "ֹ", "ֺ",
     "ֻ", "ּ", "ֽ", "ֿ", "ׁ", "ׂ", "ׄ", "ׅ", "ׇ", "״", "U+0600", "U+0601",
     "U+0602", "U+0603", "U+0604", "U+0605", "U+0610", "U+0611", "U+0612",
     "U+0613", "U+0614", "U+0615", "U+0616", "U+0617", "U+0618", "U+0619",
     "U+061A", "U+061C", "U+0640", "U+064B", "U+064C", "U+064D", "U+064E",
     "U+064F", "U+0650", "U+0651", "U+0652", "U+0653", "U+0654", "U+0655",
     "U+0656", "U+0657", "U+0658", "U+0659", "U+065A", "U+065B", "U+065C",
     "U+065D", "U+065E", "U+065F", "U+0670", "ۖ", "ۗ", "ۘ", "ۙ", "ۚ", "ۛ",
     "ۜ", "۝", "۟", "۠", "ۡ", "ۢ", "ۣ", "ۤ", "ۥ", "ۦ", "ۧ", "ۨ", "۪", "۫",
     "۬", "ۭ", "U+070F", "U+0711", "U+0730", "U+0731", "U+0732", "U+0733",
     "U+0734", "U+0735", "U+0736", "U+0737", "U+0738", "U+0739", "U+073A",
     "U+073B", "U+073C", "U+073D", "U+073E", "U+073F", "U+0740", "U+0741",
     "U+0742", "U+0743", "U+0744", "U+0745", "U+0746", "U+0747", "U+0748",
     "U+0749", "U+074A", "ަ", "ާ", "ި", "ީ", "ު", "ޫ", "ެ", "ޭ", "ޮ", "ޯ",
     "ް", "߫", "߬", "߭", "߮", "߯", "߰", "߱", "߲", "߳", "ߴ", "ߵ", "ߺ", "߽",
     "U+0816", "U+0817", "U+0818", "U+0819", "U+081A", "U+081B", "U+081C",
     "U+081D", "U+081E", "U+081F", "U+0820", "U+0821", "U+0822", "U+0823",
     "U+0824", "U+0825", "U+0826", "U+0827", "U+0828", "U+0829", "U+082A",
     "U+082B", "U+082C", "U+082D", "U+0859", "U+085A", "U+085B", "࢈", "࢐",
     "࢑", "࢘", "࢙", "࢚", "࢛", "࢜", "࢝", "࢞", "࢟", "ࣉ", "࣊", "࣋", "࣌", "࣍",
     "࣎", "࣏", "࣐", "࣑", "࣒", "࣓", "ࣔ", "ࣕ", "ࣖ", "ࣗ", "ࣘ", "ࣙ", "ࣚ", "ࣛ",
     "ࣜ", "ࣝ", "ࣞ", "ࣟ", "࣠", "࣡", "࣢", "ࣣ", "ࣤ", "ࣥ", "ࣦ", "ࣧ", "ࣨ", "ࣩ",
     "࣪", "࣫", "࣬", "࣭", "࣮", "࣯", "ࣰ", "ࣱ", "ࣲ", "ࣳ", "ࣴ", "ࣵ", "ࣶ", "ࣷ",
     "ࣸ", "ࣹ", "ࣺ", "ࣻ", "ࣼ", "ࣽ", "ࣾ", "ࣿ", "U+0900", "U+0901", "U+0902",
     "U+093A", "U+093C", "U+0941", "U+0942", "U+0943", "U+0944", "U+0945",
     "U+0946", "U+0947", "U+0948", "U+094D", "U+0951", "U+0952", "U+0953",
     "U+0954", "U+0955", "U+0956", "U+0957", "U+0962", "U+0963", "U+0971",
     "ঁ", "়", "ু", "ূ", "ৃ", "ৄ", "্", "ৢ", "ৣ", "৾", "U+0A01", "U+0A02",
     "U+0A3C", "U+0A41", "U+0A42", "U+0A47", "U+0A48", "U+0A4B", "U+0A4C",
     "U+0A4D", "U+0A51", "U+0A70", "U+0A71", "U+0A75", "ઁ", "ં", "઼", "ુ",
     "ૂ", "ૃ", "ૄ", "ૅ", "ે", "ૈ", "્", "ૢ", "ૣ", "ૺ", "ૻ", "ૼ", "૽", "૾",
     "૿", "U+0B01", "U+0B3C", "U+0B3F", "U+0B41", "U+0B42", "U+0B43",
     "U+0B44", "U+0B4D", "U+0B55", "U+0B56", "U+0B62", "U+0B63", "ஂ", "ீ",
     "்", "U+0C00", "U+0C04", "U+0C3C", "U+0C3E", "U+0C3F", "U+0C40",
     "U+0C46", "U+0C47", "U+0C48", "U+0C4A", "U+0C4B", "U+0C4C", "U+0C4D",
     "U+0C55", "U+0C56", "U+0C62", "U+0C63", "ಁ", "಼", "ಿ", "ೆ", "ೌ", "್",
     "ೢ", "ೣ", "U+0D00", "U+0D01", "U+0D3B", "U+0D3C", "U+0D41", "U+0D42",
     "U+0D43", "U+0D44", "U+0D4D", "U+0D62", "U+0D63", "ඁ", "්", "ි", "ී",
     "ු", "ූ", "U+0E31", "U+0E34", "U+0E35", "U+0E36", "U+0E37", "U+0E38",
     "U+0E39", "U+0E3A", "U+0E46", "U+0E47", "U+0E48", "U+0E49", "U+0E4A",
     "U+0E4B", "U+0E4C", "U+0E4D", "U+0E4E", "ັ", "ິ", "ີ", "ຶ", "ື", "ຸ",
     "ູ", "຺", "ົ", "ຼ", "ໆ", "່", "້", "໊", "໋", "໌", "ໍ", "U+0F18",
     "U+0F19", "U+0F35", "U+0F37", "U+0F39", "U+0F71", "U+0F72", "U+0F73",
     "U+0F74", "U+0F75", "U+0F76", "U+0F77", "U+0F78", "U+0F79", "U+0F7A",
     "U+0F7B", "U+0F7C", "U+0F7D", "U+0F7E", "ྀ", "ཱྀ", "ྂ", "ྃ", "྄", "྆",
     "྇", "ྍ", "ྎ", "ྏ", "ྐ", "ྑ", "ྒ", "ྒྷ", "ྔ", "ྕ", "ྖ", "ྗ", "ྙ", "ྚ",
     "ྛ", "ྜ", "ྜྷ", "ྞ", "ྟ", "ྠ", "ྡ", "ྡྷ", "ྣ", "ྤ", "ྥ", "ྦ", "ྦྷ", "ྨ",
     "ྩ", "ྪ", "ྫ", "ྫྷ", "ྭ", "ྮ", "ྯ", "ྰ", "ྱ", "ྲ", "ླ", "ྴ", "ྵ", "ྶ",
     "ྷ", "ྸ", "ྐྵ", "ྺ", "ྻ", "ྼ", "࿆", "U+102D", "U+102E", "U+102F",
     "U+1030", "U+1032", "U+1033", "U+1034", "U+1035", "U+1036", "U+1037",
     "U+1039", "U+103A", "U+103D", "U+103E", "U+1058", "U+1059", "U+105E",
     "U+105F", "U+1060", "U+1071", "U+1072", "U+1073", "U+1074", "ႂ", "ႅ",
     "ႆ", "ႍ", "ႝ", "ჼ", "U+135D", "U+135E", "U+135F", "U+1712", "U+1713",
     "U+1714", "U+1732", "U+1733", "U+1752", "U+1753", "U+1772", "U+1773",
     "឴", "឵", "ិ", "ី", "ឹ", "ឺ", "ុ", "ូ", "ួ", "ំ", "៉", "៊", "់", "៌",
     "៍", "៎", "៏", "័", "៑", "្", "៓", "ៗ", "៝", "U+180B", "U+180C",
     "U+180D", "U+180E", "U+180F", "U+1843", "ᢅ", "ᢆ", "ᢩ", "U+1920",
     "U+1921", "U+1922", "U+1927", "U+1928", "U+1932", "U+1939", "U+193A",
     "U+193B", "U+1A17", "U+1A18", "U+1A1B", "U+1A56", "U+1A58", "U+1A59",
     "U+1A5A", "U+1A5B", "U+1A5C", "U+1A5D", "U+1A5E", "U+1A60", "U+1A62",
     "U+1A65", "U+1A66", "U+1A67", "U+1A68", "U+1A69", "U+1A6A", "U+1A6B",
     "U+1A6C", "U+1A73", "U+1A74", "U+1A75", "U+1A76", "U+1A77", "U+1A78",
     "U+1A79", "U+1A7A", "U+1A7B", "U+1A7C", "U+1A7F", "ᪧ", "᪰", "᪱", "᪲",
     "᪳", "᪴", "᪵", "᪶", "᪷", "᪸", "᪹", "᪺", "᪻", "᪼", "᪽", "᪾", "ᪿ", "ᫀ",
     "᫁", "᫂", "᫃", "᫄", "᫅", "᫆", "᫇", "᫈", "᫉", "᫊", "᫋", "ᫌ", "ᫍ", "ᫎ",
     "U+1B00", "U+1B01", "U+1B02", "U+1B03", "U+1B34", "U+1B36", "U+1B37",
     "U+1B38", "U+1B39", "U+1B3A", "U+1B3C", "U+1B42", "U+1B6B", "U+1B6C",
     "U+1B6D", "U+1B6E", "U+1B6F", "U+1B70", "U+1B71", "U+1B72", "U+1B73",
     "ᮀ", "ᮁ", "ᮢ", "ᮣ", "ᮤ", "ᮥ", "ᮨ", "ᮩ", "᮫", "ᮬ", "ᮭ", "᯦", "ᯨ", "ᯩ",
     "ᯭ", "ᯯ", "ᯰ", "ᯱ", "U+1C2C", "U+1C2D", "U+1C2E", "U+1C2F", "U+1C30",
     "U+1C31", "U+1C32", "U+1C33", "U+1C36", "U+1C37", "U+1C78", "U+1C79",
     "U+1C7A", "U+1C7B", "U+1C7C", "U+1C7D", "᳐", "᳑", "᳒", "᳔", "᳕", "᳖",
     "᳗", "᳘", "᳙", "᳚", "᳛", "᳜", "᳝", "᳞", "᳟", "᳠", "᳢", "᳣", "᳤", "᳥",
     "᳦", "᳧", "᳨", "᳭", "᳴", "᳸", "᳹", "U+1D2C", "U+1D2D", "U+1D2E",
     "U+1D2F", "U+1D30", "U+1D31", "U+1D32", "U+1D33", "U+1D34", "U+1D35",
     "U+1D36", "U+1D37", "U+1D38", "U+1D39", "U+1D3A", "U+1D3B", "U+1D3C",
     "U+1D3D", "U+1D3E", "U+1D3F", "U+1D40", "U+1D41", "U+1D42", "U+1D43",
     "U+1D44", "U+1D45", "U+1D46", "U+1D47", "U+1D48", "U+1D49", "U+1D4A",
     "U+1D4B", "U+1D4C", "U+1D4D", "U+1D4E", "U+1D4F", "U+1D50", "U+1D51",
     "U+1D52", "U+1D53", "U+1D54", "U+1D55", "U+1D56", "U+1D57", "U+1D58",
     "U+1D59", "U+1D5A", "U+1D5B", "U+1D5C", "U+1D5D", "U+1D5E", "U+1D5F",
     "U+1D60", "U+1D61", "U+1D62", "U+1D63", "U+1D64", "U+1D65", "U+1D66",
     "U+1D67", "U+1D68", "U+1D69", "U+1D6A", "U+1D78", "ᶛ", "ᶜ", "ᶝ", "ᶞ",
     "ᶟ", "ᶠ", "ᶡ", "ᶢ", "ᶣ", "ᶤ", "ᶥ", "ᶦ", "ᶧ", "ᶨ", "ᶩ", "ᶪ", "ᶫ", "ᶬ",
     "ᶭ", "ᶮ", "ᶯ", "ᶰ", "ᶱ", "ᶲ", "ᶳ", "ᶴ", "ᶵ", "ᶶ", "ᶷ", "ᶸ", "ᶹ", "ᶺ",
     "ᶻ", "ᶼ", "ᶽ", "ᶾ", "ᶿ", "᷀", "᷁", "᷂", "᷃", "᷄", "᷅", "᷆", "᷇", "᷈",
     "᷉", "᷊", "᷋", "᷌", "᷍", "᷎", "᷏", "᷐", "᷑", "᷒", "ᷓ", "ᷔ", "ᷕ", "ᷖ",
     "ᷗ", "ᷘ", "ᷙ", "ᷚ", "ᷛ", "ᷜ", "ᷝ", "ᷞ", "ᷟ", "ᷠ", "ᷡ", "ᷢ", "ᷣ", "ᷤ",
     "ᷥ", "ᷦ", "ᷧ", "ᷨ", "ᷩ", "ᷪ", "ᷫ", "ᷬ", "ᷭ", "ᷮ", "ᷯ", "ᷰ", "ᷱ", "ᷲ",
     "ᷳ", "ᷴ", "᷵", "᷶", "᷷", "᷸", "᷹", "᷺", "᷻", "᷼", "᷽", "᷾", "᷿", "᾽",
     "᾿", "῀", "῁", "῍", "῎", "῏", "῝", "῞", "῟", "῭", "΅", "`", "´", "῾",
     "U+200B", "U+200C", "U+200D", "U+200E", "U+200F", "U+2018", "U+2019",
     "U+2024", "U+2027", "U+202A", "U+202B", "U+202C", "U+202D", "U+202E",
     "U+2060", "U+2061", "U+2062", "U+2063", "U+2064", "U+2066", "U+2067",
     "U+2068", "U+2069", "U+206A", "U+206B", "U+206C", "U+206D", "U+206E",
     "U+206F", "U+2071", "U+207F", "ₐ", "ₑ", "ₒ", "ₓ", "ₔ", "ₕ", "ₖ", "ₗ",
     "ₘ", "ₙ", "ₚ", "ₛ", "ₜ", "⃐", "⃑", "⃒", "⃓", "⃔", "⃕", "⃖", "⃗", "⃘",
     "⃙", "⃚", "⃛", "⃜", "⃝", "⃞", "⃟", "⃠", "⃡", "⃢", "⃣", "⃤", "⃥", "⃦",
     "⃧", "⃨", "⃩", "⃪", "⃫", "⃬", "⃭", "⃮", "⃯", "⃰", "U+2C7C", "U+2C7D",
     "⳯", "⳰", "⳱", "U+2D6F", "U+2D7F", "ⷠ", "ⷡ", "ⷢ", "ⷣ", "ⷤ", "ⷥ", "ⷦ",
     "ⷧ", "ⷨ", "ⷩ", "ⷪ", "ⷫ", "ⷬ", "ⷭ", "ⷮ", "ⷯ", "ⷰ", "ⷱ", "ⷲ", "ⷳ", "ⷴ",
     "ⷵ", "ⷶ", "ⷷ", "ⷸ", "ⷹ", "ⷺ", "ⷻ", "ⷼ", "ⷽ", "ⷾ", "ⷿ", "U+2E2F",
     "U+3005", "U+302A", "U+302B", "U+302C", "U+302D", "U+3031", "U+3032",
     "U+3033", "U+3034", "U+3035", "U+303B", "゙", "゚", "゛", "゜", "ゝ", "ゞ",
     "ー", "ヽ", "ヾ", "U+A015", "ꓸ", "ꓹ", "ꓺ", "ꓻ", "ꓼ", "ꓽ", "U+A60C",
     "U+A66F", "U+A670", "U+A671", "U+A672", "U+A674", "U+A675", "U+A676",
     "U+A677", "U+A678", "U+A679", "U+A67A", "U+A67B", "U+A67C", "U+A67D",
     "U+A67F", "ꚜ", "ꚝ", "ꚞ", "ꚟ", "꛰", "꛱", "U+A700", "U+A701", "U+A702",
     "U+A703", "U+A704", "U+A705", "U+A706", "U+A707", "U+A708", "U+A709",
     "U+A70A", "U+A70B", "U+A70C", "U+A70D", "U+A70E", "U+A70F", "U+A710",
     "U+A711", "U+A712", "U+A713", "U+A714", "U+A715", "U+A716", "U+A717",
     "U+A718", "U+A719", "U+A71A", "U+A71B", "U+A71C", "U+A71D", "U+A71E",
     "U+A71F", "U+A720", "U+A721", "U+A770", "ꞈ", "꞉", "꞊", "ꟲ", "ꟳ", "ꟴ",
     "ꟸ", "ꟹ", "U+A802", "U+A806", "U+A80B", "U+A825", "U+A826", "U+A82C",
     "꣄", "ꣅ", "꣠", "꣡", "꣢", "꣣", "꣤", "꣥", "꣦", "꣧", "꣨", "꣩", "꣪", "꣫",
     "꣬", "꣭", "꣮", "꣯", "꣰", "꣱", "ꣿ", "U+A926", "U+A927", "U+A928",
     "U+A929", "U+A92A", "U+A92B", "U+A92C", "U+A92D", "U+A947", "U+A948",
     "U+A949", "U+A94A", "U+A94B", "U+A94C", "U+A94D", "U+A94E", "U+A94F",
     "U+A950", "U+A951", "ꦀ", "ꦁ", "ꦂ", "꦳", "ꦶ", "ꦷ", "ꦸ", "ꦹ", "ꦼ", "ꦽ",
     "ꧏ", "ꧥ", "ꧦ", "U+AA29", "U+AA2A", "U+AA2B", "U+AA2C", "U+AA2D",
     "U+AA2E", "U+AA31", "U+AA32", "U+AA35", "U+AA36", "U+AA43", "U+AA4C",
     "U+AA70", "U+AA7C", "ꪰ", "ꪲ", "ꪳ", "ꪴ", "ꪷ", "ꪸ", "ꪾ", "꪿", "꫁", "ꫝ",
     "ꫬ", "ꫭ", "ꫳ", "ꫴ", "꫶", "U+AB5B", "U+AB5C", "U+AB5D", "U+AB5E",
     "U+AB5F", "U+AB69", "U+AB6A", "U+AB6B", "ꯥ", "ꯨ", "꯭", "U+FB1E", "﮲",
     "﮳", "﮴", "﮵", "﮶", "﮷", "﮸", "﮹", "﮺", "﮻", "﮼", "﮽", "﮾", "﮿", "﯀",
     "﯁", "﯂", "U+FE00", "U+FE01", "U+FE02", "U+FE03", "U+FE04", "U+FE05",
     "U+FE06", "U+FE07", "U+FE08", "U+FE09", "U+FE0A", "U+FE0B", "U+FE0C",
     "U+FE0D", "U+FE0E", "U+FE0F", "U+FE13", "U+FE20", "U+FE21", "U+FE22",
     "U+FE23", "U+FE24", "U+FE25", "U+FE26", "U+FE27", "U+FE28", "U+FE29",
     "U+FE2A", "U+FE2B", "U+FE2C", "U+FE2D", "U+FE2E", "U+FE2F", "U+FE52",
     "U+FE55", "﻿", "U+FF07", "U+FF0E", "U+FF1A", "U+FF3E", "U+FF40",
     "U+FF70", "ﾞ", "ﾟ", "￣", "￹", "￺", "￻", "U+101FD", "U+102E0",
     "U+10376", "U+10377", "U+10378", "U+10379", "U+1037A", "U+10780",
     "U+10781", "U+10782", "U+10783", "U+10784", "U+10785", "U+10787",
     "U+10788", "U+10789", "U+1078A", "U+1078B", "U+1078C", "U+1078D",
     "U+1078E", "U+1078F", "U+10790", "U+10791", "U+10792", "U+10793",
     "U+10794", "U+10795", "U+10796", "U+10797", "U+10798", "U+10799",
     "U+1079A", "U+1079B", "U+1079C", "U+1079D", "U+1079E", "U+1079F",
     "U+107A0", "U+107A1", "U+107A2", "U+107A3", "U+107A4", "U+107A5",
     "U+107A6", "U+107A7", "U+107A8", "U+107A9", "U+107AA", "U+107AB",
     "U+107AC", "U+107AD", "U+107AE", "U+107AF", "U+107B0", "U+107B2",
     "U+107B3", "U+107B4", "U+107B5", "U+107B6", "U+107B7", "U+107B8",
     "U+107B9", "U+107BA", "U+10A01", "U+10A02", "U+10A03", "U+10A05",
     "U+10A06", "U+10A0C", "U+10A0D", "U+10A0E", "U+10A0F", "U+10A38",
     "U+10A39", "U+10A3A", "U+10A3F", "U+10AE5", "U+10AE6", "U+10D24",
     "U+10D25", "U+10D26", "U+10D27", "U+10EAB", "U+10EAC", "U+10F46",
     "U+10F47", "U+10F48", "U+10F49", "U+10F4A", "U+10F4B", "U+10F4C",
     "U+10F4D", "U+10F4E", "U+10F4F", "U+10F50", "U+10F82", "U+10F83",
     "U+10F84", "U+10F85", "U+11001", "U+11038", "U+11039", "U+1103A",
     "U+1103B", "U+1103C", "U+1103D", "U+1103E", "U+1103F", "U+11040",
     "U+11041", "U+11042", "U+11043", "U+11044", "U+11045", "U+11046",
     "U+11070", "U+11073", "U+11074", "U+1107F", "U+11080", "U+11081",
     "U+110B3", "U+110B4", "U+110B5", "U+110B6", "U+110B9", "U+110BA",
     "U+110BD", "U+110C2", "U+110CD", "U+11100", "U+11101", "U+11102",
     "U+11127", "U+11128", "U+11129", "U+1112A", "U+1112B", "U+1112D",
     "U+1112E", "U+1112F", "U+11130", "U+11131", "U+11132", "U+11133",
     "U+11134", "U+11173", "U+11180", "U+11181", "U+111B6", "U+111B7",
     "U+111B8", "U+111B9", "U+111BA", "U+111BB", "U+111BC", "U+111BD",
     "U+111BE", "U+111C9", "U+111CA", "U+111CB", "U+111CC", "U+111CF",
     "U+1122F", "U+11230", "U+11231", "U+11234", "U+11236", "U+11237",
     "U+1123E", "U+112DF", "U+112E3", "U+112E4", "U+112E5", "U+112E6",
     "U+112E7", "U+112E8", "U+112E9", "U+112EA", "U+11300", "U+11301",
     "U+1133B", "U+1133C", "U+11340", "U+11366", "U+11367", "U+11368",
     "U+11369", "U+1136A", "U+1136B", "U+1136C", "U+11370", "U+11371",
     "U+11372", "U+11373", "U+11374", "U+11438", "U+11439", "U+1143A",
     "U+1143B", "U+1143C", "U+1143D", "U+1143E", "U+1143F", "U+11442",
     "U+11443", "U+11444", "U+11446", "U+1145E", "U+114B3", "U+114B4",
     "U+114B5", "U+114B6", "U+114B7", "U+114B8", "U+114BA", "U+114BF",
     "U+114C0", "U+114C2", "U+114C3", "U+115B2", "U+115B3", "U+115B4",
     "U+115B5", "U+115BC", "U+115BD", "U+115BF", "U+115C0", "U+115DC",
     "U+115DD", "U+11633", "U+11634", "U+11635", "U+11636", "U+11637",
     "U+11638", "U+11639", "U+1163A", "U+1163D", "U+1163F", "U+11640",
     "U+116AB", "U+116AD", "U+116B0", "U+116B1", "U+116B2", "U+116B3",
     "U+116B4", "U+116B5", "U+116B7", "U+1171D", "U+1171E", "U+1171F",
     "U+11722", "U+11723", "U+11724", "U+11725", "U+11727", "U+11728",
     "U+11729", "U+1172A", "U+1172B", "U+1182F", "U+11830", "U+11831",
     "U+11832", "U+11833", "U+11834", "U+11835", "U+11836", "U+11837",
     "U+11839", "U+1183A", "U+1193B", "U+1193C", "U+1193E", "U+11943",
     "U+119D4", "U+119D5", "U+119D6", "U+119D7", "U+119DA", "U+119DB",
     "U+119E0", "U+11A01", "U+11A02", "U+11A03", "U+11A04", "U+11A05",
     "U+11A06", "U+11A07", "U+11A08", "U+11A09", "U+11A0A", "U+11A33",
     "U+11A34", "U+11A35", "U+11A36", "U+11A37", "U+11A38", "U+11A3B",
     "U+11A3C", "U+11A3D", "U+11A3E", "U+11A47", "U+11A51", "U+11A52",
     "U+11A53", "U+11A54", "U+11A55", "U+11A56", "U+11A59", "U+11A5A",
     "U+11A5B", "U+11A8A", "U+11A8B", "U+11A8C", "U+11A8D", "U+11A8E",
     "U+11A8F", "U+11A90", "U+11A91", "U+11A92", "U+11A93", "U+11A94",
     "U+11A95", "U+11A96", "U+11A98", "U+11A99", "U+11C30", "U+11C31",
     "U+11C32", "U+11C33", "U+11C34", "U+11C35", "U+11C36", "U+11C38",
     "U+11C39", "U+11C3A", "U+11C3B", "U+11C3C", "U+11C3D", "U+11C3F",
     "U+11C92", "U+11C93", "U+11C94", "U+11C95", "U+11C96", "U+11C97",
     "U+11C98", "U+11C99", "U+11C9A", "U+11C9B", "U+11C9C", "U+11C9D",
     "U+11C9E", "U+11C9F", "U+11CA0", "U+11CA1", "U+11CA2", "U+11CA3",
     "U+11CA4", "U+11CA5", "U+11CA6", "U+11CA7", "U+11CAA", "U+11CAB",
     "U+11CAC", "U+11CAD", "U+11CAE", "U+11CAF", "U+11CB0", "U+11CB2",
     "U+11CB3", "U+11CB5", "U+11CB6", "U+11D31", "U+11D32", "U+11D33",
     "U+11D34", "U+11D35", "U+11D36", "U+11D3A", "U+11D3C", "U+11D3D",
     "U+11D3F", "U+11D40", "U+11D41", "U+11D42", "U+11D43", "U+11D44",
     "U+11D45", "U+11D47", "U+11D90", "U+11D91", "U+11D95", "U+11D97",
     "U+11EF3", "U+11EF4", "U+13430", "U+13431", "U+13432", "U+13433",
     "U+13434", "U+13435", "U+13436", "U+13437", "U+13438", "U+16AF0",
     "U+16AF1", "U+16AF2", "U+16AF3", "U+16AF4", "U+16B30", "U+16B31",
     "U+16B32", "U+16B33", "U+16B34", "U+16B35", "U+16B36", "U+16B40",
     "U+16B41", "U+16B42", "U+16B43", "U+16F4F", "U+16F8F", "U+16F90",
     "U+16F91", "U+16F92", "U+16F93", "U+16F94", "U+16F95", "U+16F96",
     "U+16F97", "U+16F98", "U+16F99", "U+16F9A", "U+16F9B", "U+16F9C",
     "U+16F9D", "U+16F9E", "U+16F9F", "U+16FE0", "U+16FE1", "U+16FE3",
     "U+16FE4", "U+1AFF0", "U+1AFF1", "U+1AFF2", "U+1AFF3", "U+1AFF5",
     "U+1AFF6", "U+1AFF7", "U+1AFF8", "U+1AFF9", "U+1AFFA", "U+1AFFB",
     "U+1AFFD", "U+1AFFE", "U+1BC9D", "U+1BC9E", "U+1BCA0", "U+1BCA1",
     "U+1BCA2", "U+1BCA3", "U+1CF00", "U+1CF01", "U+1CF02", "U+1CF03",
     "U+1CF04", "U+1CF05", "U+1CF06", "U+1CF07", "U+1CF08", "U+1CF09",
     "U+1CF0A", "U+1CF0B", "U+1CF0C", "U+1CF0D", "U+1CF0E", "U+1CF0F",
     "U+1CF10", "U+1CF11", "U+1CF12", "U+1CF13", "U+1CF14", "U+1CF15",
     "U+1CF16", "U+1CF17", "U+1CF18", "U+1CF19", "U+1CF1A", "U+1CF1B",
     "U+1CF1C", "U+1CF1D", "U+1CF1E", "U+1CF1F", "U+1CF20", "U+1CF21",
     "U+1CF22", "U+1CF23", "U+1CF24", "U+1CF25", "U+1CF26", "U+1CF27",
     "U+1CF28", "U+1CF29", "U+1CF2A", "U+1CF2B", "U+1CF2C", "U+1CF2D",
     "U+1CF30", "U+1CF31", "U+1CF32", "U+1CF33", "U+1CF34", "U+1CF35",
     "U+1CF36", "U+1CF37", "U+1CF38", "U+1CF39", "U+1CF3A", "U+1CF3B",
     "U+1CF3C", "U+1CF3D", "U+1CF3E", "U+1CF3F", "U+1CF40", "U+1CF41",
     "U+1CF42", "U+1CF43", "U+1CF44", "U+1CF45", "U+1CF46", "U+1D167",
     "U+1D168", "U+1D169", "U+1D173", "U+1D174", "U+1D175", "U+1D176",
     "U+1D177", "U+1D178", "U+1D179", "U+1D17A", "U+1D17B", "U+1D17C",
     "U+1D17D", "U+1D17E", "U+1D17F", "U+1D180", "U+1D181", "U+1D182",
     "U+1D185", "U+1D186", "U+1D187", "U+1D188", "U+1D189", "U+1D18A",
     "U+1D18B", "U+1D1AA", "U+1D1AB", "U+1D1AC", "U+1D1AD", "U+1D242",
     "U+1D243", "U+1D244", "U+1DA00", "U+1DA01", "U+1DA02", "U+1DA03",
     "U+1DA04", "U+1DA05", "U+1DA06", "U+1DA07", "U+1DA08", "U+1DA09",
     "U+1DA0A", "U+1DA0B", "U+1DA0C", "U+1DA0D", "U+1DA0E", "U+1DA0F",
     "U+1DA10", "U+1DA11", "U+1DA12", "U+1DA13", "U+1DA14", "U+1DA15",
     "U+1DA16", "U+1DA17", "U+1DA18", "U+1DA19", "U+1DA1A", "U+1DA1B",
     "U+1DA1C", "U+1DA1D", "U+1DA1E", "U+1DA1F", "U+1DA20", "U+1DA21",
     "U+1DA22", "U+1DA23", "U+1DA24", "U+1DA25", "U+1DA26", "U+1DA27",
     "U+1DA28", "U+1DA29", "U+1DA2A", "U+1DA2B", "U+1DA2C", "U+1DA2D",
     "U+1DA2E", "U+1DA2F", "U+1DA30", "U+1DA31", "U+1DA32", "U+1DA33",
     "U+1DA34", "U+1DA35", "U+1DA36", "U+1DA3B", "U+1DA3C", "U+1DA3D",
     "U+1DA3E", "U+1DA3F", "U+1DA40", "U+1DA41", "U+1DA42", "U+1DA43",
     "U+1DA44", "U+1DA45", "U+1DA46", "U+1DA47", "U+1DA48", "U+1DA49",
     "U+1DA4A", "U+1DA4B", "U+1DA4C", "U+1DA4D", "U+1DA4E", "U+1DA4F",
     "U+1DA50", "U+1DA51", "U+1DA52", "U+1DA53", "U+1DA54", "U+1DA55",
     "U+1DA56", "U+1DA57", "U+1DA58", "U+1DA59", "U+1DA5A", "U+1DA5B",
     "U+1DA5C", "U+1DA5D", "U+1DA5E", "U+1DA5F", "U+1DA60", "U+1DA61",
     "U+1DA62", "U+1DA63", "U+1DA64", "U+1DA65", "U+1DA66", "U+1DA67",
     "U+1DA68", "U+1DA69", "U+1DA6A", "U+1DA6B", "U+1DA6C", "U+1DA75",
     "U+1DA84", "U+1DA9B", "U+1DA9C", "U+1DA9D", "U+1DA9E", "U+1DA9F",
     "U+1DAA1", "U+1DAA2", "U+1DAA3", "U+1DAA4", "U+1DAA5", "U+1DAA6",
     "U+1DAA7", "U+1DAA8", "U+1DAA9", "U+1DAAA", "U+1DAAB", "U+1DAAC",
     "U+1DAAD", "U+1DAAE", "U+1DAAF", "U+1E000", "U+1E001", "U+1E002",
     "U+1E003", "U+1E004", "U+1E005", "U+1E006", "U+1E008", "U+1E009",
     "U+1E00A", "U+1E00B", "U+1E00C", "U+1E00D", "U+1E00E", "U+1E00F",
     "U+1E010", "U+1E011", "U+1E012", "U+1E013", "U+1E014", "U+1E015",
     "U+1E016", "U+1E017", "U+1E018", "U+1E01B", "U+1E01C", "U+1E01D",
     "U+1E01E", "U+1E01F", "U+1E020", "U+1E021", "U+1E023", "U+1E024",
     "U+1E026", "U+1E027", "U+1E028", "U+1E029", "U+1E02A", "U+1E130",
     "U+1E131", "U+1E132", "U+1E133", "U+1E134", "U+1E135", "U+1E136",
     "U+1E137", "U+1E138", "U+1E139", "U+1E13A", "U+1E13B", "U+1E13C",
     "U+1E13D", "U+1E2AE", "U+1E2EC", "U+1E2ED", "U+1E2EE", "U+1E2EF",
     "U+1E8D0", "U+1E8D1", "U+1E8D2", "U+1E8D3", "U+1E8D4", "U+1E8D5",
     "U+1E8D6", "U+1E944", "U+1E945", "U+1E946", "U+1E947", "U+1E948",
     "U+1E949", "U+1E94A", "U+1E94B", "U+1F3FB", "U+1F3FC", "U+1F3FD",
     "U+1F3FE", "U+1F3FF", "U+E0001", "U+E0020", "U+E0021", "U+E0022",
     "U+E0023", "U+E0024", "U+E0025", "U+E0026", "U+E0027", "U+E0028",
     "U+E0029", "U+E002A", "U+E002B", "U+E002C", "U+E002D", "U+E002E",
     "U+E002F", "U+E0030", "U+E0031", "U+E0032", "U+E0033", "U+E0034",
     "U+E0035", "U+E0036", "U+E0037", "U+E0038", "U+E0039", "U+E003A",
     "U+E003B", "U+E003C", "U+E003D", "U+E003E", "U+E003F", "U+E0040",
     "U+E0041", "U+E0042", "U+E0043", "U+E0044", "U+E0045", "U+E0046",
     "U+E0047", "U+E0048", "U+E0049", "U+E004A", "U+E004B", "U+E004C",
     "U+E004D", "U+E004E", "U+E004F", "U+E0050", "U+E0051", "U+E0052",
     "U+E0053", "U+E0054", "U+E0055", "U+E0056", "U+E0057", "U+E0058",
     "U+E0059", "U+E005A", "U+E005B", "U+E005C", "U+E005D", "U+E005E",
     "U+E005F", "U+E0060", "U+E0061", "U+E0062", "U+E0063", "U+E0064",
     "U+E0065", "U+E0066", "U+E0067", "U+E0068", "U+E0069", "U+E006A",
     "U+E006B", "U+E006C", "U+E006D", "U+E006E", "U+E006F", "U+E0070",
     "U+E0071", "U+E0072", "U+E0073", "U+E0074", "U+E0075", "U+E0076",
     "U+E0077", "U+E0078", "U+E0079", "U+E007A", "U+E007B", "U+E007C",
     "U+E007D", "U+E007E", "U+E007F", "U+E0100", "U+E0101", "U+E0102",
     "U+E0103", "U+E0104", "U+E0105", "U+E0106", "U+E0107", "U+E0108",
     "U+E0109", "U+E010A", "U+E010B", "U+E010C", "U+E010D", "U+E010E",
     "U+E010F", "U+E0110", "U+E0111", "U+E0112", "U+E0113", "U+E0114",
     "U+E0115", "U+E0116", "U+E0117", "U+E0118", "U+E0119", "U+E011A",
     "U+E011B", "U+E011C", "U+E011D", "U+E011E", "U+E011F", "U+E0120",
     "U+E0121", "U+E0122", "U+E0123", "U+E0124", "U+E0125", "U+E0126",
     "U+E0127", "U+E0128", "U+E0129", "U+E012A", "U+E012B", "U+E012C",
     "U+E012D", "U+E012E", "U+E012F", "U+E0130", "U+E0131", "U+E0132",
     "U+E0133", "U+E0134", "U+E0135", "U+E0136", "U+E0137", "U+E0138",
     "U+E0139", "U+E013A", "U+E013B", "U+E013C", "U+E013D", "U+E013E",
     "U+E013F", "U+E0140", "U+E0141", "U+E0142", "U+E0143", "U+E0144",
     "U+E0145", "U+E0146", "U+E0147", "U+E0148", "U+E0149", "U+E014A",
     "U+E014B", "U+E014C", "U+E014D", "U+E014E", "U+E014F", "U+E0150",
     "U+E0151", "U+E0152", "U+E0153", "U+E0154", "U+E0155", "U+E0156",
     "U+E0157", "U+E0158", "U+E0159", "U+E015A", "U+E015B", "U+E015C",
     "U+E015D", "U+E015E", "U+E015F", "U+E0160", "U+E0161", "U+E0162",
     "U+E0163", "U+E0164", "U+E0165", "U+E0166", "U+E0167", "U+E0168",
     "U+E0169", "U+E016A", "U+E016B", "U+E016C", "U+E016D", "U+E016E",
     "U+E016F", "U+E0170", "U+E0171", "U+E0172", "U+E0173", "U+E0174",
     "U+E0175", "U+E0176", "U+E0177", "U+E0178", "U+E0179", "U+E017A",
     "U+E017B", "U+E017C", "U+E017D", "U+E017E", "U+E017F", "U+E0180",
     "U+E0181", "U+E0182", "U+E0183", "U+E0184", "U+E0185", "U+E0186",
     "U+E0187", "U+E0188", "U+E0189", "U+E018A", "U+E018B", "U+E018C",
     "U+E018D", "U+E018E", "U+E018F", "U+E0190", "U+E0191", "U+E0192",
     "U+E0193", "U+E0194", "U+E0195", "U+E0196", "U+E0197", "U+E0198",
     "U+E0199", "U+E019A", "U+E019B", "U+E019C", "U+E019D", "U+E019E",
     "U+E019F", "U+E01A0", "U+E01A1", "U+E01A2", "U+E01A3", "U+E01A4",
     "U+E01A5", "U+E01A6", "U+E01A7", "U+E01A8", "U+E01A9", "U+E01AA",
     "U+E01AB", "U+E01AC", "U+E01AD", "U+E01AE", "U+E01AF", "U+E01B0",
     "U+E01B1", "U+E01B2", "U+E01B3", "U+E01B4", "U+E01B5", "U+E01B6",
     "U+E01B7", "U+E01B8", "U+E01B9", "U+E01BA", "U+E01BB", "U+E01BC",
     "U+E01BD", "U+E01BE", "U+E01BF", "U+E01C0", "U+E01C1", "U+E01C2",
     "U+E01C3", "U+E01C4", "U+E01C5", "U+E01C6", "U+E01C7", "U+E01C8",
     "U+E01C9", "U+E01CA", "U+E01CB", "U+E01CC", "U+E01CD", "U+E01CE",
     "U+E01CF", "U+E01D0", "U+E01D1", "U+E01D2", "U+E01D3", "U+E01D4",
     "U+E01D5", "U+E01D6", "U+E01D7", "U+E01D8", "U+E01D9", "U+E01DA",
     "U+E01DB", "U+E01DC", "U+E01DD", "U+E01DE", "U+E01DF", "U+E01E0",
     "U+E01E1", "U+E01E2", "U+E01E3", "U+E01E4", "U+E01E5", "U+E01E6",
     "U+E01E7", "U+E01E8", "U+E01E9", "U+E01EA", "U+E01EB", "U+E01EC",
     "U+E01ED", "U+E01EE", "U+E01EF"
    }

Cased ==
    {
     "A", "B", "C", "D", "E", "F", "G", "H", "I", "J", "K", "L", "M", "N",
     "O", "P", "Q", "R", "S", "T", "U", "V", "W", "X", "Y", "Z", "a", "b",
     "c", "d", "e", "f", "g", "h", "i", "j", "k", "l", "m", "n", "o", "p",
     "q", "r", "s", "t", "u", "v", "w", "x", "y", "z", "ª", "µ", "º", "À",
     "Á", "Â", "Ã", "Ä", "Å", "Æ", "Ç", "È", "É", "Ê", "Ë", "Ì", "Í", "Î",
     "Ï", "Ð", "Ñ", "Ò", "Ó", "Ô", "Õ", "Ö", "Ø", "Ù", "Ú", "Û", "Ü", "Ý",
     "Þ", "ß", "à", "á", "â", "ã", "ä", "å", "æ", "ç", "è", "é", "ê", "ë",
     "ì", "í", "î", "ï", "ð", "ñ", "ò", "ó", "ô", "õ", "ö", "ø", "ù", "ú",
     "û", "ü", "ý", "þ", "ÿ", "U+0100", "U+0101", "U+0102", "U+0103",
     "U+0104", "U+0105", "U+0106", "U+0107", "U+0108", "U+0109", "U+010A",
     "U+010B", "U+010C", "U+010D", "U+010E", "U+010F", "U+0110", "U+0111",
     "U+0112", "U+0113", "U+0114", "U+0115", "U+0116", "U+0117", "U+0118",
     "U+0119", "U+011A", "U+011B", "U+011C", "U+011D", "U+011E", "U+011F",
     "U+0120", "U+0121", "U+0122", "U+0123", "U+0124", "U+0125", "U+0126",
     "U+0127", "U+0128", "U+0129", "U+012A", "U+012B", "U+012C", "U+012D",
     "U+012E", "U+012F", "U+0130", "U+0131", "U+0132", "U+0133", "U+0134",
     "U+0135", "U+0136", "U+0137", "U+0138", "U+0139", "U+013A", "U+013B",
     "U+013C", "U+013D", "U+013E", "U+013F", "U+0140", "U+0141", "U+0142",
     "U+0143", "U+0144", "U+0145", "U+0146", "U+0147", "U+0148", "U+0149",
     "U+014A", "U+014B", "U+014C", "U+014D", "U+014E", "U+014F", "U+0150",
     "U+0151", "U+0152", "U+0153", "U+0154", "U+0155", "U+0156", "U+0157",
     "U+0158", "U+0159", "U+015A", "U+015B", "U+015C", "U+015D", "U+015E",
     "U+015F", "U+0160", "U+0161", "U+0162", "U+0163", "U+0164", "U+0165",
     "U+0166", "U+0167", "U+0168", "U+0169", "U+016A", "U+016B", "U+016C",
     "U+016D", "U+016E", "U+016F", "U+0170", "U+0171", "U+0172", "U+0173",
     "U+0174", "U+0175", "U+0176", "U+0177", "U+0178", "U+0179", "U+017A",
     "U+017B", "U+017C", "U+017D", "U+017E", "U+017F", "ƀ", "Ɓ", "Ƃ", "ƃ",
     "Ƅ", "ƅ", "Ɔ", "Ƈ", "ƈ", "Ɖ", "Ɗ", "Ƌ", "ƌ", "ƍ", "Ǝ", "Ə", "Ɛ", "Ƒ",
     "ƒ", "Ɠ", "Ɣ", "ƕ", "Ɩ", "Ɨ", "Ƙ", "ƙ", "ƚ", "ƛ", "Ɯ", "Ɲ", "ƞ", "Ɵ",
     "Ơ", "ơ", "Ƣ", "ƣ", "Ƥ", "ƥ", "Ʀ", "Ƨ", "ƨ", "Ʃ", "ƪ", "ƫ", "Ƭ", "ƭ",
     "Ʈ", "Ư", "ư", "Ʊ", "Ʋ", "Ƴ", "ƴ", "Ƶ", "ƶ", "Ʒ", "Ƹ", "ƹ", "ƺ", "Ƽ",
     "ƽ", "ƾ", "ƿ", "Ǆ", "ǅ", "ǆ", "Ǉ", "ǈ", "ǉ", "Ǌ", "ǋ", "ǌ", "Ǎ", "ǎ",
     "Ǐ", "ǐ", "Ǒ", "ǒ", "Ǔ", "ǔ", "Ǖ", "ǖ", "Ǘ", "ǘ", "Ǚ", "ǚ", "Ǜ", "ǜ",
     "ǝ", "Ǟ", "ǟ", "Ǡ", "ǡ", "Ǣ", "ǣ", "Ǥ", "ǥ", "Ǧ", "ǧ", "Ǩ", "ǩ", "Ǫ",
     "ǫ", "Ǭ", "ǭ", "Ǯ", "ǯ", "ǰ", "Ǳ", "ǲ", "ǳ", "Ǵ", "ǵ", "Ƕ", "Ƿ", "Ǹ",
     "ǹ", "Ǻ", "ǻ", "Ǽ", "ǽ", "Ǿ", "ǿ", "U+0200", "U+0201", "U+0202",
     "U+0203", "U+0204", "U+0205", "U+0206", "U+0207", "U+0208", "U+0209",
     "U+020A", "U+020B", "U+020C", "U+020D", "U+020E", "U+020F", "U+0210",
     "U+0211", "U+0212", "U+0213", "U+0214", "U+0215", "U+0216", "U+0217",
     "U+0218", "U+0219", "U+021A", "U+021B", "U+021C", "U+021D", "U+021E",
     "U+021F", "U+0220", "U+0221", "U+0222", "U+0223", "U+0224", "U+0225",
     "U+0226", "U+0227", "U+0228", "U+0229", "U+022A", "U+022B", "U+022C",
     "U+022D", "U+022E", "U+022F", "U+0230", "U+0231", "U+0232", "U+0233",
     "U+0234", "U+0235", "U+0236", "U+0237", "U+0238", "U+0239", "U+023A",
     "U+023B", "U+023C", "U+023D", "U+023E", "U+023F", "U+0240", "U+0241",
     "U+0242", "U+0243", "U+0244", "U+0245", "U+0246", "U+0247", "U+0248",
     "U+0249", "U+024A", "U+024B", "U+024C", "U+024D", "U+024E", "U+024F",
     "U+0250", "U+0251", "U+0252", "U+0253", "U+0254", "U+0255", "U+0256",
     "U+0257", "U+0258", "U+0259", "U+025A", "U+025B", "U+025C", "U+025D",
     "U+025E", "U+025F", "U+0260", "U+0261", "U+0262", "U+0263", "U+0264",
     "U+0265", "U+0266", "U+0267", "U+0268", "U+0269", "U+026A", "U+026B",
     "U+026C", "U+026D", "U+026E", "U+026F", "U+0270", "U+0271", "U+0272",
     "U+0273", "U+0274", "U+0275", "U+0276", "U+0277", "U+0278", "U+0279",
     "U+027A", "U+027B", "U+027C", "U+027D", "U+027E", "U+027F", "ʀ", "ʁ",
     "ʂ", "ʃ", "ʄ", "ʅ", "ʆ", "ʇ", "ʈ", "ʉ", "ʊ", "ʋ", "ʌ", "ʍ", "ʎ", "ʏ",
     "ʐ", "ʑ", "ʒ", "ʓ", "ʕ", "ʖ", "ʗ", "ʘ", "ʙ", "ʚ", "ʛ", "ʜ", "ʝ", "ʞ",
     "ʟ", "ʠ", "ʡ", "ʢ", "ʣ", "ʤ", "ʥ", "ʦ", "ʧ", "ʨ", "ʩ", "ʪ", "ʫ", "ʬ",
     "ʭ", "ʮ", "ʯ", "U+0370", "U+0371", "U+0372", "U+0373", "U+0376",
     "U+0377", "U+037B", "U+037C", "U+037D", "U+037F", "Ά", "Έ", "Ή", "Ί",
     "Ό", "Ύ", "Ώ", "ΐ", "Α", "Β", "Γ", "Δ", "Ε", "Ζ", "Η", "Θ", "Ι", "Κ",
     "Λ", "Μ", "Ν", "Ξ", "Ο", "Π", "Ρ", "Σ", "Τ", "Υ", "Φ", "Χ", "Ψ", "Ω",
     "Ϊ", "Ϋ", "ά", "έ", "ή", "ί", "ΰ", "α", "β", "γ", "δ", "ε", "ζ", "η",
     "θ", "ι", "κ", "λ", "μ", "ν", "ξ", "ο", "π", "ρ", "ς", "σ", "τ", "υ",
     "φ", "χ", "ψ", "ω", "ϊ", "ϋ", "ό", "ύ", "ώ", "Ϗ", "ϐ", "ϑ", "ϒ", "ϓ",
     "ϔ", "ϕ", "ϖ", "ϗ", "Ϙ", "ϙ", "Ϛ", "ϛ", "Ϝ", "ϝ", "Ϟ", "ϟ", "Ϡ", "ϡ",
     "Ϣ", "ϣ", "Ϥ", "ϥ", "Ϧ", "ϧ", "Ϩ", "ϩ", "Ϫ", "ϫ", "Ϭ", "ϭ", "Ϯ", "ϯ",
     "ϰ", "ϱ", "ϲ", "ϳ", "ϴ", "ϵ", "Ϸ", "ϸ", "Ϲ", "Ϻ", "ϻ", "ϼ", "Ͻ", "Ͼ",
     "Ͽ", "U+0400", "U+0401", "U+0402", "U+0403", "U+0404", "U+0405",
     "U+0406", "U+0407", "U+0408", "U+0409", "U+040A", "U+040B", "U+040C",
     "U+040D", "U+040E", "U+040F", "U+0410", "U+0411", "U+0412", "U+0413",
     "U+0414", "U+0415", "U+0416", "U+0417", "U+0418", "U+0419", "U+041A",
     "U+041B", "U+041C", "U+041D", "U+041E", "U+041F", "U+0420", "U+0421",
     "U+0422", "U+0423", "U+0424", "U+0425", "U+0426", "U+0427", "U+0428",
     "U+0429", "U+042A", "U+042B", "U+042C", "U+042D", "U+042E", "U+042F",
     "U+0430", "U+0431", "U+0432", "U+0433", "U+0434", "U+0435", "U+0436",
     "U+0437", "U+0438", "U+0439", "U+043A", "U+043B", "U+043C", "U+043D",
     "U+043E", "U+043F", "U+0440", "U+0441", "U+0442", "U+0443", "U+0444",
     "U+0445", "U+0446", "U+0447", "U+0448", "U+0449", "U+044A", "U+044B",
     "U+044C", "U+044D", "U+044E", "U+044F", "U+0450", "U+0451", "U+0452",
     "U+0453", "U+0454", "U+0455", "U+0456", "U+0457", "U+0458", "U+0459",
     "U+045A", "U+045B", "U+045C", "U+045D", "U+045E", "U+045F", "U+0460",
     "U+0461", "U+0462", "U+0463", "U+0464", "U+0465", "U+0466", "U+0467",
     "U+0468", "U+0469", "U+046A", "U+046B", "U+046C", "U+046D", "U+046E",
     "U+046F", "U+0470", "U+0471", "U+0472", "U+0473", "U+0474", "U+0475",
     "U+0476", "U+0477", "U+0478", "U+0479", "U+047A", "U+047B", "U+047C",
     "U+047D", "U+047E", "U+047F", "Ҁ", "ҁ", "Ҋ", "ҋ", "Ҍ", "ҍ", "Ҏ", "ҏ",
     "Ґ", "ґ", "Ғ", "ғ", "Ҕ", "ҕ", "Җ", "җ", "Ҙ", "ҙ", "Қ", "қ", "Ҝ", "ҝ",
     "Ҟ", "ҟ", "Ҡ", "ҡ", "Ң", "ң", "Ҥ", "ҥ", "Ҧ", "ҧ", "Ҩ", "ҩ", "Ҫ", "ҫ",
     "Ҭ", "ҭ", "Ү", "ү", "Ұ", "ұ", "Ҳ", "ҳ", "Ҵ", "ҵ", "Ҷ", "ҷ", "Ҹ", "ҹ",
     "Һ", "һ", "Ҽ", "ҽ", "Ҿ", "ҿ", "Ӏ", "Ӂ", "ӂ", "Ӄ", "ӄ", "Ӆ", "ӆ", "Ӈ",
     "ӈ", "Ӊ", "ӊ", "Ӌ", "ӌ", "Ӎ", "ӎ", "ӏ", "Ӑ", "ӑ", "Ӓ", "ӓ", "Ӕ", "ӕ",
     "Ӗ", "ӗ", "Ә", "ә", "Ӛ", "ӛ", "Ӝ", "ӝ", "Ӟ", "ӟ", "Ӡ", "ӡ", "Ӣ", "ӣ",
     "Ӥ", "ӥ", "Ӧ", "ӧ", "Ө", "ө", "Ӫ", "ӫ", "Ӭ", "ӭ", "Ӯ", "ӯ", "Ӱ", "ӱ",
     "Ӳ", "ӳ", "Ӵ", "ӵ", "Ӷ", "ӷ", "Ӹ", "ӹ", "Ӻ", "ӻ", "Ӽ", "ӽ", "Ӿ", "ӿ",
     "U+0500", "U+0501", "U+0502", "U+0503", "U+0504", "U+0505", "U+0506",
     "U+0507", "U+0508", "U+0509", "U+050A", "U+050B", "U+050C", "U+050D",
     "U+050E", "U+050F", "U+0510", "U+0511", "U+0512", "U+0513", "U+0514",
     "U+0515", "U+0516", "U+0517", "U+0518", "U+0519", "U+051A", "U+051B",
     "U+051C", "U+051D", "U+051E", "U+051F", "U+0520", "U+0521", "U+0522",
     "U+0523", "U+0524", "U+0525", "U+0526", "U+0527", "U+0528", "U+0529",
     "U+052A", "U+052B", "U+052C", "U+052D", "U+052E", "U+052F", "U+0531",
     "U+0532", "U+0533", "U+0534", "U+0535", "U+0536", "U+0537", "U+0538",
     "U+0539", "U+053A", "U+053B", "U+053C", "U+053D", "U+053E", "U+053F",
     "U+0540", "U+0541", "U+0542", "U+0543", "U+0544", "U+0545", "U+0546",
     "U+0547", "U+0548", "U+0549", "U+054A", "U+054B", "U+054C", "U+054D",
     "U+054E", "U+054F", "U+0550", "U+0551", "U+0552", "U+0553", "U+0554",
     "U+0555", "U+0556", "U+0560", "U+0561", "U+0562", "U+0563", "U+0564",
     "U+0565", "U+0566", "U+0567", "U+0568", "U+0569", "U+056A", "U+056B",
     "U+056C", "U+056D", "U+056E", "U+056F", "U+0570", "U+0571", "U+0572",
     "U+0573", "U+0574", "U+0575", "U+0576", "U+0577", "U+0578", "U+0579",
     "U+057A", "U+057B", "U+057C", "U+057D", "U+057E", "U+057F", "ր", "ց",
     "ւ", "փ", "ք", "օ", "ֆ", "և", "ֈ", "Ⴀ", "Ⴁ", "Ⴂ", "Ⴃ", "Ⴄ", "Ⴅ", "Ⴆ",
     "Ⴇ", "Ⴈ", "Ⴉ", "Ⴊ", "Ⴋ", "Ⴌ", "Ⴍ", "Ⴎ", "Ⴏ", "Ⴐ", "Ⴑ", "Ⴒ", "Ⴓ", "Ⴔ",
     "Ⴕ", "Ⴖ", "Ⴗ", "Ⴘ", "Ⴙ", "Ⴚ", "Ⴛ", "Ⴜ", "Ⴝ", "Ⴞ", "Ⴟ", "Ⴠ", "Ⴡ", "Ⴢ",
     "Ⴣ", "Ⴤ", "Ⴥ", "Ⴧ", "Ⴭ", "ა", "ბ", "გ", "დ", "ე", "ვ", "ზ", "თ", "ი",
     "კ", "ლ", "მ", "ნ", "ო", "პ", "ჟ", "რ", "ს", "ტ", "უ", "ფ", "ქ", "ღ",
     "ყ", "შ", "ჩ", "ც", "ძ", "წ", "ჭ", "ხ", "ჯ", "ჰ", "ჱ", "ჲ", "ჳ", "ჴ",
     "ჵ", "ჶ", "ჷ", "ჸ", "ჹ", "ჺ", "ჽ", "ჾ", "ჿ", "Ꭰ", "Ꭱ", "Ꭲ", "Ꭳ", "Ꭴ",
     "Ꭵ", "Ꭶ", "Ꭷ", "Ꭸ", "Ꭹ", "Ꭺ", "Ꭻ", "Ꭼ", "Ꭽ", "Ꭾ", "Ꭿ", "Ꮀ", "Ꮁ", "Ꮂ",
     "Ꮃ", "Ꮄ", "Ꮅ", "Ꮆ", "Ꮇ", "Ꮈ", "Ꮉ", "Ꮊ", "Ꮋ", "Ꮌ", "Ꮍ", "Ꮎ", "Ꮏ", "Ꮐ",
     "Ꮑ", "Ꮒ", "Ꮓ", "Ꮔ", "Ꮕ", "Ꮖ", "Ꮗ", "Ꮘ", "Ꮙ", "Ꮚ", "Ꮛ", "Ꮜ", "Ꮝ", "Ꮞ",
     "Ꮟ", "Ꮠ", "Ꮡ", "Ꮢ", "Ꮣ", "Ꮤ", "Ꮥ", "Ꮦ", "Ꮧ", "Ꮨ", "Ꮩ", "Ꮪ", "Ꮫ", "Ꮬ",
     "Ꮭ", "Ꮮ", "Ꮯ", "Ꮰ", "Ꮱ", "Ꮲ", "Ꮳ", "Ꮴ", "Ꮵ", "Ꮶ", "Ꮷ", "Ꮸ", "Ꮹ", "Ꮺ",
     "Ꮻ", "Ꮼ", "Ꮽ", "Ꮾ", "Ꮿ", "Ᏸ", "Ᏹ", "Ᏺ", "Ᏻ", "Ᏼ", "Ᏽ", "ᏸ", "ᏹ", "ᏺ",
     "ᏻ", "ᏼ", "ᏽ", "ᲀ", "ᲁ", "ᲂ", "ᲃ", "ᲄ", "ᲅ", "ᲆ", "ᲇ", "ᲈ", "Ა", "Ბ",
     "Გ", "Დ", "Ე", "Ვ", "Ზ", "Თ", "Ი", "Კ", "Ლ", "Მ", "Ნ", "Ო", "Პ", "Ჟ",
     "Რ", "Ს", "Ტ", "Უ", "Ფ", "Ქ", "Ღ", "Ყ", "Შ", "Ჩ", "Ც", "Ძ", "Წ", "Ჭ",
     "Ხ", "Ჯ", "Ჰ", "Ჱ", "Ჲ", "Ჳ", "Ჴ", "Ჵ", "Ჶ", "Ჷ", "Ჸ", "Ჹ", "Ჺ", "Ჽ",
     "Ჾ", "Ჿ", "U+1D00", "U+1D01", "U+1D02", "U+1D03", "U+1D04", "U+1D05",
     "U+1D06", "U+1D07", "U+1D08", "U+1D09", "U+1D0A", "U+1D0B", "U+1D0C",
     "U+1D0D", "U+1D0E", "U+1D0F", "U+1D10", "U+1D11", "U+1D12", "U+1D13",
     "U+1D14", "U+1D15", "U+1D16", "U+1D17", "U+1D18", "U+1D19", "U+1D1A",
     "U+1D1B", "U+1D1C", "U+1D1D", "U+1D1E", "U+1D1F", "U+1D20", "U+1D21",
     "U+1D22", "U+1D23", "U+1D24", "U+1D25", "U+1D26", "U+1D27", "U+1D28",
     "U+1D29", "U+1D2A", "U+1D2B", "U+1D6B", "U+1D6C", "U+1D6D", "U+1D6E",
     "U+1D6F", "U+1D70", "U+1D71", "U+1D72", "U+1D73", "U+1D74", "U+1D75",
     "U+1D76", "U+1D77", "U+1D79", "U+1D7A", "U+1D7B", "U+1D7C", "U+1D7D",
     "U+1D7E", "U+1D7F", "ᶀ", "ᶁ", "ᶂ", "ᶃ", "ᶄ", "ᶅ", "ᶆ", "ᶇ", "ᶈ", "ᶉ",
     "ᶊ", "ᶋ", "ᶌ", "ᶍ", "ᶎ", "ᶏ", "ᶐ", "ᶑ", "ᶒ", "ᶓ", "ᶔ", "ᶕ", "ᶖ", "ᶗ",
     "ᶘ", "ᶙ", "ᶚ", "U+1E00", "U+1E01", "U+1E02", "U+1E03", "U+1E04",
     "U+1E05", "U+1E06", "U+1E07", "U+1E08", "U+1E09", "U+1E0A", "U+1E0B",
     "U+1E0C", "U+1E0D", "U+1E0E", "U+1E0F", "U+1E10", "U+1E11", "U+1E12",
     "U+1E13", "U+1E14", "U+1E15", "U+1E16", "U+1E17", "U+1E18", "U+1E19",
     "U+1E1A", "U+1E1B", "U+1E1C", "U+1E1D", "U+1E1E", "U+1E1F", "U+1E20",
     "U+1E21", "U+1E22", "U+1E23", "U+1E24", "U+1E25", "U+1E26", "U+1E27",
     "U+1E28", "U+1E29", "U+1E2A", "U+1E2B", "U+1E2C", "U+1E2D", "U+1E2E",
     "U+1E2F", "U+1E30", "U+1E31", "U+1E32", "U+1E33", "U+1E34", "U+1E35",
     "U+1E36", "U+1E37", "U+1E38", "U+1E39", "U+1E3A", "U+1E3B", "U+1E3C",
     "U+1E3D", "U+1E3E", "U+1E3F", "U+1E40", "U+1E41", "U+1E42", "U+1E43",
     "U+1E44", "U+1E45", "U+1E46", "U+1E47", "U+1E48", "U+1E49", "U+1E4A",
     "U+1E4B", "U+1E4C", "U+1E4D", "U+1E4E", "U+1E4F", "U+1E50", "U+1E51",
     "U+1E52", "U+1E53", "U+1E54", "U+1E55", "U+1E56", "U+1E57", "U+1E58",
     "U+1E59", "U+1E5A", "U+1E5B", "U+1E5C", "U+1E5D", "U+1E5E", "U+1E5F",
     "U+1E60", "U+1E61", "U+1E62", "U+1E63", "U+1E64", "U+1E65", "U+1E66",
     "U+1E67", "U+1E68", "U+1E69", "U+1E6A", "U+1E6B", "U+1E6C", "U+1E6D",
     "U+1E6E", "U+1E6F", "U+1E70", "U+1E71", "U+1E72", "U+1E73", "U+1E74",
     "U+1E75", "U+1E76", "U+1E77", "U+1E78", "U+1E79", "U+1E7A", "U+1E7B",
     "U+1E7C", "U+1E7D", "U+1E7E", "U+1E7F", "Ẁ", "ẁ", "Ẃ", "ẃ", "Ẅ", "ẅ",
     "Ẇ", "ẇ", "Ẉ", "ẉ", "Ẋ", "ẋ", "Ẍ", "ẍ", "Ẏ", "ẏ", "Ẑ", "ẑ", "Ẓ", "ẓ",
     "Ẕ", "ẕ", "ẖ", "ẗ", "ẘ", "ẙ", "ẚ", "ẛ", "ẜ", "ẝ", "ẞ", "ẟ", "Ạ", "ạ",
     "Ả", "ả", "Ấ", "ấ", "Ầ", "ầ", "Ẩ", "ẩ", "Ẫ", "ẫ", "Ậ", "ậ", "Ắ", "ắ",
     "Ằ", "ằ", "Ẳ", "ẳ", "Ẵ", "ẵ", "Ặ", "ặ", "Ẹ", "ẹ", "Ẻ", "ẻ", "Ẽ", "ẽ",
     "Ế", "ế", "Ề", "ề", "Ể", "ể", "Ễ", "ễ", "Ệ", "ệ", "Ỉ", "ỉ", "Ị", "ị",
     "Ọ", "ọ", "Ỏ", "ỏ", "Ố", "ố", "Ồ", "ồ", "Ổ", "ổ", "Ỗ", "ỗ", "Ộ", "ộ",
     "Ớ", "ớ", "Ờ", "ờ", "Ở", "ở", "Ỡ", "ỡ", "Ợ", "ợ", "Ụ", "ụ", "Ủ", "ủ",
     "Ứ", "ứ", "Ừ", "ừ", "Ử", "ử", "Ữ", "ữ", "Ự", "ự", "Ỳ", "ỳ", "Ỵ", "ỵ",
     "Ỷ", "ỷ", "Ỹ", "ỹ", "Ỻ", "ỻ", "Ỽ", "ỽ", "Ỿ", "ỿ", "U+1F00", "U+1F01",
     "U+1F02", "U+1F03", "U+1F04", "U+1F05", "U+1F06", "U+1F07", "U+1F08",
     "U+1F09", "U+1F0A", "U+1F0B", "U+1F0C", "U+1F0D", "U+1F0E", "U+1F0F",
     "U+1F10", "U+1F11", "U+1F12", "U+1F13", "U+1F14", "U+1F15", "U+1F18",
     "U+1F19", "U+1F1A", "U+1F1B", "U+1F1C", "U+1F1D", "U+1F20", "U+1F21",
     "U+1F22", "U+1F23", "U+1F24", "U+1F25", "U+1F26", "U+1F27", "U+1F28",
     "U+1F29", "U+1F2A", "U+1F2B", "U+1F2C", "U+1F2D", "U+1F2E", "U+1F2F",
     "U+1F30", "U+1F31", "U+1F32", "U+1F33", "U+1F34", "U+1F35", "U+1F36",
     "U+1F37", "U+1F38", "U+1F39", "U+1F3A", "U+1F3B", "U+1F3C", "U+1F3D",
     "U+1F3E", "U+1F3F", "U+1F40", "U+1F41", "U+1F42", "U+1F43", "U+1F44",
     "U+1F45", "U+1F48", "U+1F49", "U+1F4A", "U+1F4B", "U+1F4C", "U+1F4D",
     "U+1F50", "U+1F51", "U+1F52", "U+1F53", "U+1F54", "U+1F55", "U+1F56",
     "U+1F57", "U+1F59", "U+1F5B", "U+1F5D", "U+1F5F", "U+1F60", "U+1F61",
     "U+1F62", "U+1F63", "U+1F64", "U+1F65", "U+1F66", "U+1F67", "U+1F68",
     "U+1F69", "U+1F6A", "U+1F6B", "U+1F6C", "U+1F6D", "U+1F6E", "U+1F6F",
     "U+1F70", "U+1F71", "U+1F72", "U+1F73", "U+1F74", "U+1F75", "U+1F76",
     "U+1F77", "U+1F78", "U+1F79", "U+1F7A", "U+1F7B", "U+1F7C", "U+1F7D",
     "ᾀ", "ᾁ", "ᾂ", "ᾃ", "ᾄ", "ᾅ", "ᾆ", "ᾇ", "ᾈ", "ᾉ", "ᾊ", "ᾋ", "ᾌ", "ᾍ",
     "ᾎ", "ᾏ", "ᾐ", "ᾑ", "ᾒ", "ᾓ", "ᾔ", "ᾕ", "ᾖ", "ᾗ", "ᾘ", "ᾙ", "ᾚ", "ᾛ",
     "ᾜ", "ᾝ", "ᾞ", "ᾟ", "ᾠ", "ᾡ", "ᾢ", "ᾣ", "ᾤ", "ᾥ", "ᾦ", "ᾧ", "ᾨ", "ᾩ",
     "ᾪ", "ᾫ", "ᾬ", "ᾭ", "ᾮ", "ᾯ", "ᾰ", "ᾱ", "ᾲ", "ᾳ", "ᾴ", "ᾶ", "ᾷ", "Ᾰ",
     "Ᾱ", "Ὰ", "Ά", "ᾼ", "ι", "ῂ", "ῃ", "ῄ", "ῆ", "ῇ", "Ὲ", "Έ", "Ὴ", "Ή",
     "ῌ", "ῐ", "ῑ", "ῒ", "ΐ", "ῖ", "ῗ", "Ῐ", "Ῑ", "Ὶ", "Ί", "ῠ", "ῡ", "ῢ",
     "ΰ", "ῤ", "ῥ", "ῦ", "ῧ", "Ῠ", "Ῡ", "Ὺ", "Ύ", "Ῥ", "ῲ", "ῳ", "ῴ", "ῶ",
     "ῷ", "Ὸ", "Ό", "Ὼ", "Ώ", "ῼ", "U+2102", "U+2107", "U+210A", "U+210B",
     "U+210C", "U+210D", "U+210E", "U+210F", "U+2110", "U+2111", "U+2112",
     "U+2113", "U+2115", "U+2119", "U+211A", "U+211B", "U+211C", "U+211D",
     "U+2124", "U+2126", "U+2128", "U+212A", "U+212B", "U+212C", "U+212D",
     "U+212F", "U+2130", "U+2131", "U+2132", "U+2133", "U+2134", "U+2139",
     "U+213C", "U+213D", "U+213E", "U+213F", "U+2145", "U+2146", "U+2147",
     "U+2148", "U+2149", "U+214E", "U+2160", "U+2161", "U+2162", "U+2163",
     "U+2164", "U+2165", "U+2166", "U+2167", "U+2168", "U+2169", "U+216A",
     "U+216B", "U+216C", "U+216D", "U+216E", "U+216F", "U+2170", "U+2171",
     "U+2172", "U+2173", "U+2174", "U+2175", "U+2176", "U+2177", "U+2178",
     "U+2179", "U+217A", "U+217B", "U+217C", "U+217D", "U+217E", "U+217F",
     "Ↄ", "ↄ", "Ⓐ", "Ⓑ", "Ⓒ", "Ⓓ", "Ⓔ", "Ⓕ", "Ⓖ", "Ⓗ", "Ⓘ", "Ⓙ", "Ⓚ", "Ⓛ",
     "Ⓜ", "Ⓝ", "Ⓞ", "Ⓟ", "Ⓠ", "Ⓡ", "Ⓢ", "Ⓣ", "Ⓤ", "Ⓥ", "Ⓦ", "Ⓧ", "Ⓨ", "Ⓩ",
     "ⓐ", "ⓑ", "ⓒ", "ⓓ", "ⓔ", "ⓕ", "ⓖ", "ⓗ", "ⓘ", "ⓙ", "ⓚ", "ⓛ", "ⓜ", "ⓝ",
     "ⓞ", "ⓟ", "ⓠ", "ⓡ", "ⓢ", "ⓣ", "ⓤ", "ⓥ", "ⓦ", "ⓧ", "ⓨ", "ⓩ", "U+2C00",
     "U+2C01", "U+2C02", "U+2C03", "U+2C04", "U+2C05", "U+2C06", "U+2C07",
     "U+2C08", "U+2C09", "U+2C0A", "U+2C0B", "U+2C0C", "U+2C0D", "U+2C0E",
     "U+2C0F", "U+2C10", "U+2C11", "U+2C12", "U+2C13", "U+2C14", "U+2C15",
     "U+2C16", "U+2C17", "U+2C18", "U+2C19", "U+2C1A", "U+2C1B", "U+2C1C",
     "U+2C1D", "U+2C1E", "U+2C1F", "U+2C20", "U+2C21", "U+2C22", "U+2C23",
     "U+2C24", "U+2C25", "U+2C26", "U+2C27", "U+2C28", "U+2C29", "U+2C2A",
     "U+2C2B", "U+2C2C", "U+2C2D", "U+2C2E", "U+2C2F", "U+2C30", "U+2C31",
     "U+2C32", "U+2C33", "U+2C34", "U+2C35", "U+2C36", "U+2C37", "U+2C38",
     "U+2C39", "U+2C3A", "U+2C3B", "U+2C3C", "U+2C3D", "U+2C3E", "U+2C3F",
     "U+2C40", "U+2C41", "U+2C42", "U+2C43", "U+2C44", "U+2C45", "U+2C46",
     "U+2C47", "U+2C48", "U+2C49", "U+2C4A", "U+2C4B", "U+2C4C", "U+2C4D",
     "U+2C4E", "U+2C4F", "U+2C50", "U+2C51", "U+2C52", "U+2C53", "U+2C54",
     "U+2C55", "U+2C56", "U+2C57", "U+2C58", "U+2C59", "U+2C5A", "U+2C5B",
     "U+2C5C", "U+2C5D", "U+2C5E", "U+2C5F", "U+2C60", "U+2C61", "U+2C62",
     "U+2C63", "U+2C64", "U+2C65", "U+2C66", "U+2C67", "U+2C68", "U+2C69",
     "U+2C6A", "U+2C6B", "U+2C6C", "U+2C6D", "U+2C6E", "U+2C6F", "U+2C70",
     "U+2C71", "U+2C72", "U+2C73", "U+2C74", "U+2C75", "U+2C76", "U+2C77",
     "U+2C78", "U+2C79", "U+2C7A", "U+2C7B", "U+2C7E", "U+2C7F", "Ⲁ", "ⲁ",
     "Ⲃ", "ⲃ", "Ⲅ", "ⲅ", "Ⲇ", "ⲇ", "Ⲉ", "ⲉ", "Ⲋ", "ⲋ", "Ⲍ", "ⲍ", "Ⲏ", "ⲏ",
     "Ⲑ", "ⲑ", "Ⲓ", "ⲓ", "Ⲕ", "ⲕ", "Ⲗ", "ⲗ", "Ⲙ", "ⲙ", "Ⲛ", "ⲛ", "Ⲝ", "ⲝ",
     "Ⲟ", "ⲟ", "Ⲡ", "ⲡ", "Ⲣ", "ⲣ", "Ⲥ", "ⲥ", "Ⲧ", "ⲧ", "Ⲩ", "ⲩ", "Ⲫ", "ⲫ",
     "Ⲭ", "ⲭ", "Ⲯ", "ⲯ", "Ⲱ", "ⲱ", "Ⲳ", "ⲳ", "Ⲵ", "ⲵ", "Ⲷ", "ⲷ", "Ⲹ", "ⲹ",
     "Ⲻ", "ⲻ", "Ⲽ", "ⲽ", "Ⲿ", "ⲿ", "Ⳁ", "ⳁ", "Ⳃ", "ⳃ", "Ⳅ", "ⳅ", "Ⳇ", "ⳇ",
     "Ⳉ", "ⳉ", "Ⳋ", "ⳋ", "Ⳍ", "ⳍ", "Ⳏ", "ⳏ", "Ⳑ", "ⳑ", "Ⳓ", "ⳓ", "Ⳕ", "ⳕ",
     "Ⳗ", "ⳗ", "Ⳙ", "ⳙ", "Ⳛ", "ⳛ", "Ⳝ", "ⳝ", "Ⳟ", "ⳟ", "Ⳡ", "ⳡ", "Ⳣ", "ⳣ",
     "ⳤ", "Ⳬ", "ⳬ", "Ⳮ", "ⳮ", "Ⳳ", "ⳳ", "U+2D00", "U+2D01", "U+2D02",
     "U+2D03", "U+2D04", "U+2D05", "U+2D06", "U+2D07", "U+2D08", "U+2D09",
     "U+2D0A", "U+2D0B", "U+2D0C", "U+2D0D", "U+2D0E", "U+2D0F", "U+2D10",
     "U+2D11", "U+2D12", "U+2D13", "U+2D14", "U+2D15", "U+2D16", "U+2D17",
     "U+2D18", "U+2D19", "U+2D1A", "U+2D1B", "U+2D1C", "U+2D1D", "U+2D1E",
     "U+2D1F", "U+2D20", "U+2D21", "U+2D22", "U+2D23", "U+2D24", "U+2D25",
     "U+2D27", "U+2D2D", "U+A640", "U+A641", "U+A642", "U+A643", "U+A644",
     "U+A645", "U+A646", "U+A647", "U+A648", "U+A649", "U+A64A", "U+A64B",
     "U+A64C", "U+A64D", "U+A64E", "U+A64F", "U+A650", "U+A651", "U+A652",
     "U+A653", "U+A654", "U+A655", "U+A656", "U+A657", "U+A658", "U+A659",
     "U+A65A", "U+A65B", "U+A65C", "U+A65D", "U+A65E", "U+A65F", "U+A660",
     "U+A661", "U+A662", "U+A663", "U+A664", "U+A665", "U+A666", "U+A667",
     "U+A668", "U+A669", "U+A66A", "U+A66B", "U+A66C", "U+A66D", "Ꚁ", "ꚁ",
     "Ꚃ", "ꚃ", "Ꚅ", "ꚅ", "Ꚇ", "ꚇ", "Ꚉ", "ꚉ", "Ꚋ", "ꚋ", "Ꚍ", "ꚍ", "Ꚏ", "ꚏ",
     "Ꚑ", "ꚑ", "Ꚓ", "ꚓ", "Ꚕ", "ꚕ", "Ꚗ", "ꚗ", "Ꚙ", "ꚙ", "Ꚛ", "ꚛ", "U+A722",
     "U+A723", "U+A724", "U+A725", "U+A726", "U+A727", "U+A728", "U+A729",
     "U+A72A", "U+A72B", "U+A72C", "U+A72D", "U+A72E", "U+A72F", "U+A730",
     "U+A731", "U+A732", "U+A733", "U+A734", "U+A735", "U+A736", "U+A737",
     "U+A738", "U+A739", "U+A73A", "U+A73B", "U+A73C", "U+A73D", "U+A73E",
     "U+A73F", "U+A740", "U+A741", "U+A742", "U+A743", "U+A744", "U+A745",
     "U+A746", "U+A747", "U+A748", "U+A749", "U+A74A", "U+A74B", "U+A74C",
     "U+A74D", "U+A74E", "U+A74F", "U+A750", "U+A751", "U+A752", "U+A753",
     "U+A754", "U+A755", "U+A756", "U+A757", "U+A758", "U+A759", "U+A75A",
     "U+A75B", "U+A75C", "U+A75D", "U+A75E", "U+A75F", "U+A760", "U+A761",
     "U+A762", "U+A763", "U+A764", "U+A765", "U+A766", "U+A767", "U+A768",
     "U+A769", "U+A76A", "U+A76B", "U+A76C", "U+A76D", "U+A76E", "U+A76F",
     "U+A771", "U+A772", "U+A773", "U+A774", "U+A775", "U+A776", "U+A777",
     "U+A778", "U+A779", "U+A77A", "U+A77B", "U+A77C", "U+A77D", "U+A77E",
     "U+A77F", "Ꞁ", "ꞁ", "Ꞃ", "ꞃ", "Ꞅ", "ꞅ", "Ꞇ", "ꞇ", "Ꞌ", "ꞌ", "Ɥ", "ꞎ",
     "Ꞑ", "ꞑ", "Ꞓ", "ꞓ", "ꞔ", "ꞕ", "Ꞗ", "ꞗ", "Ꞙ", "ꞙ", "Ꞛ", "ꞛ", "Ꞝ", "ꞝ",
     "Ꞟ", "ꞟ", "Ꞡ", "ꞡ", "Ꞣ", "ꞣ", "Ꞥ", "ꞥ", "Ꞧ", "ꞧ", "Ꞩ", "ꞩ", "Ɦ", "Ɜ",
     "Ɡ", "Ɬ", "Ɪ", "ꞯ", "Ʞ", "Ʇ", "Ʝ", "Ꭓ", "Ꞵ", "ꞵ", "Ꞷ", "ꞷ", "Ꞹ", "ꞹ",
     "Ꞻ", "ꞻ", "Ꞽ", "ꞽ", "Ꞿ", "ꞿ", "Ꟁ", "ꟁ", "Ꟃ", "ꟃ", "Ꞔ", "Ʂ", "Ᶎ", "Ꟈ",
     "ꟈ", "Ꟊ", "ꟊ", "Ꟑ", "ꟑ", "ꟓ", "ꟕ", "Ꟗ", "ꟗ", "Ꟙ", "ꟙ", "Ꟶ", "ꟶ", "ꟺ",
     "U+AB30", "U+AB31", "U+AB32", "U+AB33", "U+AB34", "U+AB35", "U+AB36",
     "U+AB37", "U+AB38", "U+AB39", "U+AB3A", "U+AB3B", "U+AB3C", "U+AB3D",
     "U+AB3E", "U+AB3F", "U+AB40", "U+AB41", "U+AB42", "U+AB43", "U+AB44",
     "U+AB45", "U+AB46", "U+AB47", "U+AB48", "U+AB49", "U+AB4A", "U+AB4B",
     "U+AB4C", "U+AB4D", "U+AB4E", "U+AB4F", "U+AB50", "U+AB51", "U+AB52",
     "U+AB53", "U+AB54", "U+AB55", "U+AB56", "U+AB57", "U+AB58", "U+AB59",
     "U+AB5A", "U+AB60", "U+AB61", "U+AB62", "U+AB63", "U+AB64", "U+AB65",
     "U+AB66", "U+AB67", "U+AB68", "U+AB70", "U+AB71", "U+AB72", "U+AB73",
     "U+AB74", "U+AB75", "U+AB76", "U+AB77", "U+AB78", "U+AB79", "U+AB7A",
     "U+AB7B", "U+AB7C", "U+AB7D", "U+AB7E", "U+AB7F", "ꮀ", "ꮁ", "ꮂ", "ꮃ",
     "ꮄ", "ꮅ", "ꮆ", "ꮇ", "ꮈ", "ꮉ", "ꮊ", "ꮋ", "ꮌ", "ꮍ", "ꮎ", "ꮏ", "ꮐ", "ꮑ",
     "ꮒ", "ꮓ", "ꮔ", "ꮕ", "ꮖ", "ꮗ", "ꮘ", "ꮙ", "ꮚ", "ꮛ", "ꮜ", "ꮝ", "ꮞ", "ꮟ",
     "ꮠ", "ꮡ", "ꮢ", "ꮣ", "ꮤ", "ꮥ", "ꮦ", "ꮧ", "ꮨ", "ꮩ", "ꮪ", "ꮫ", "ꮬ", "ꮭ",
     "ꮮ", "ꮯ", "ꮰ", "ꮱ", "ꮲ", "ꮳ", "ꮴ", "ꮵ", "ꮶ", "ꮷ", "ꮸ", "ꮹ", "ꮺ", "ꮻ",
     "ꮼ", "ꮽ", "ꮾ", "ꮿ", "U+FB00", "U+FB01", "U+FB02", "U+FB03", "U+FB04",
     "U+FB05", "U+FB06", "U+FB13", "U+FB14", "U+FB15", "U+FB16", "U+FB17",
     "U+FF21", "U+FF22", "U+FF23", "U+FF24", "U+FF25", "U+FF26", "U+FF27",
     "U+FF28", "U+FF29", "U+FF2A", "U+FF2B", "U+FF2C", "U+FF2D", "U+FF2E",
     "U+FF2F", "U+FF30", "U+FF31", "U+FF32", "U+FF33", "U+FF34", "U+FF35",
     "U+FF36", "U+FF37", "U+FF38", "U+FF39", "U+FF3A", "U+FF41", "U+FF42",
     "U+FF43", "U+FF44", "U+FF45", "U+FF46", "U+FF47", "U+FF48", "U+FF49",
     "U+FF4A", "U+FF4B", "U+FF4C", "U+FF4D", "U+FF4E", "U+FF4F", "U+FF50",
     "U+FF51", "U+FF52", "U+FF53", "U+FF54", "U+FF55", "U+FF56", "U+FF57",
     "U+FF58", "U+FF59", "U+FF5A", "U+10400", "U+10401", "U+10402",
     "U+10403", "U+10404", "U+10405", "U+10406", "U+10407", "U+10408",
     "U+10409", "U+1040A", "U+1040B", "U+1040C", "U+1040D", "U+1040E",
     "U+1040F", "U+10410", "U+10411", "U+10412", "U+10413", "U+10414",
     "U+10415", "U+10416", "U+10417", "U+10418", "U+10419", "U+1041A",
     "U+1041B", "U+1041C", "U+1041D", "U+1041E", "U+1041F", "U+10420",
     "U+10421", "U+10422", "U+10423", "U+10424", "U+10425", "U+10426",
     "U+10427", "U+10428", "U+10429", "U+1042A", "U+1042B", "U+1042C",
     "U+1042D", "U+1042E", "U+1042F", "U+10430", "U+10431", "U+10432",
     "U+10433", "U+10434", "U+10435", "U+10436", "U+10437", "U+10438",
     "U+10439", "U+1043A", "U+1043B", "U+1043C", "U+1043D", "U+1043E",
     "U+1043F", "U+10440", "U+10441", "U+10442", "U+10443", "U+10444",
     "U+10445", "U+10446", "U+10447", "U+10448", "U+10449", "U+1044A",
     "U+1044B", "U+1044C", "U+1044D", "U+1044E", "U+1044F", "U+104B0",
     "U+104B1", "U+104B2", "U+104B3", "U+104B4", "U+104B5", "U+104B6",
     "U+104B7", "U+104B8", "U+104B9", "U+104BA", "U+104BB", "U+104BC",
     "U+104BD", "U+104BE", "U+104BF", "U+104C0", "U+104C1", "U+104C2",
     "U+104C3", "U+104C4", "U+104C5", "U+104C6", "U+104C7", "U+104C8",
     "U+104C9", "U+104CA", "U+104CB", "U+104CC", "U+104CD", "U+104CE",
     "U+104CF", "U+104D0", "U+104D1", "U+104D2", "U+104D3", "U+104D8",
     "U+104D9", "U+104DA", "U+104DB", "U+104DC", "U+104DD", "U+104DE",
     "U+104DF", "U+104E0", "U+104E1", "U+104E2", "U+104E3", "U+104E4",
     "U+104E5", "U+104E6", "U+104E7", "U+104E8", "U+104E9", "U+104EA",
     "U+104EB", "U+104EC", "U+104ED", "U+104EE", "U+104EF", "U+104F0",
     "U+104F1", "U+104F2", "U+104F3", "U+104F4", "U+104F5", "U+104F6",
     "U+104F7", "U+104F8", "U+104F9", "U+104FA", "U+104FB", "U+10570",
     "U+10571", "U+10572", "U+10573", "U+10574", "U+10575", "U+10576",
     "U+10577", "U+10578", "U+10579", "U+1057A", "U+1057C", "U+1057D",
     "U+1057E", "U+1057F", "U+10580", "U+10581", "U+10582", "U+10583",
     "U+10584", "U+10585", "U+10586", "U+10587", "U+10588", "U+10589",
     "U+1058A", "U+1058C", "U+1058D", "U+1058E", "U+1058F", "U+10590",
     "U+10591", "U+10592", "U+10594", "U+10595", "U+10597", "U+10598",
     "U+10599", "U+1059A", "U+1059B", "U+1059C", "U+1059D", "U+1059E",
     "U+1059F", "U+105A0", "U+105A1", "U+105A3", "U+105A4", "U+105A5",
     "U+105A6", "U+105A7", "U+105A8", "U+105A9", "U+105AA", "U+105AB",
     "U+105AC", "U+105AD", "U+105AE", "U+105AF", "U+105B0", "U+105B1",
     "U+105B3", "U+105B4", "U+105B5", "U+105B6", "U+105B7", "U+105B8",
     "U+105B9", "U+105BB", "U+105BC", "U+10C80", "U+10C81", "U+10C82",
     "U+10C83", "U+10C84", "U+10C85", "U+10C86", "U+10C87", "U+10C88",
     "U+10C89", "U+10C8A", "U+10C8B", "U+10C8C", "U+10C8D", "U+10C8E",
     "U+10C8F", "U+10C90", "U+10C91", "U+10C92", "U+10C93", "U+10C94",
     "U+10C95", "U+10C96", "U+10C97", "U+10C98", "U+10C99", "U+10C9A",
     "U+10C9B", "U+10C9C", "U+10C9D", "U+10C9E", "U+10C9F", "U+10CA0",
     "U+10CA1", "U+10CA2", "U+10CA3", "U+10CA4", "U+10CA5", "U+10CA6",
     "U+10CA7", "U+10CA8", "U+10CA9", "U+10CAA", "U+10CAB", "U+10CAC",
     "U+10CAD", "U+10CAE", "U+10CAF", "U+10CB0", "U+10CB1", "U+10CB2",
     "U+10CC0", "U+10CC1", "U+10CC2", "U+10CC3", "U+10CC4", "U+10CC5",
     "U+10CC6", "U+10CC7", "U+10CC8", "U+10CC9", "U+10CCA", "U+10CCB",
     "U+10CCC", "U+10CCD", "U+10CCE", "U+10CCF", "U+10CD0", "U+10CD1",
     "U+10CD2", "U+10CD3", "U+10CD4", "U+10CD5", "U+10CD6", "U+10CD7",
     "U+10CD8", "U+10CD9", "U+10CDA", "U+10CDB", "U+10CDC", "U+10CDD",
     "U+10CDE", "U+10CDF", "U+10CE0", "U+10CE1", "U+10CE2", "U+10CE3",
     "U+10CE4", "U+10CE5", "U+10CE6", "U+10CE7", "U+10CE8", "U+10CE9",
     "U+10CEA", "U+10CEB", "U+10CEC", "U+10CED", "U+10CEE", "U+10CEF",
     "U+10CF0", "U+10CF1", "U+10CF2", "U+118A0", "U+118A1", "U+118A2",
     "U+118A3", "U+118A4", "U+118A5", "U+118A6", "U+118A7", "U+118A8",
     "U+118A9", "U+118AA", "U+118AB", "U+118AC", "U+118AD", "U+118AE",
     "U+118AF", "U+118B0", "U+118B1", "U+118B2", "U+118B3", "U+118B4",
     "U+118B5", "U+118B6", "U+118B7", "U+118B8", "U+118B9", "U+118BA",
     "U+118BB", "U+118BC", "U+118BD", "U+118BE", "U+118BF", "U+118C0",
     "U+118C1", "U+118C2", "U+118C3", "U+118C4", "U+118C5", "U+118C6",
     "U+118C7", "U+118C8", "U+118C9", "U+118CA", "U+118CB", "U+118CC",
     "U+118CD", "U+118CE", "U+118CF", "U+118D0", "U+118D1", "U+118D2",
     "U+118D3", "U+118D4", "U+118D5", "U+118D6", "U+118D7", "U+118D8",
     "U+118D9", "U+118DA", "U+118DB", "U+118DC", "U+118DD", "U+118DE",
     "U+118DF", "U+16E40", "U+16E41", "U+16E42", "U+16E43", "U+16E44",
     "U+16E45", "U+16E46", "U+16E47", "U+16E48", "U+16E49", "U+16E4A",
     "U+16E4B", "U+16E4C", "U+16E4D", "U+16E4E", "U+16E4F", "U+16E50",
     "U+16E51", "U+16E52", "U+16E53", "U+16E54", "U+16E55", "U+16E56",
     "U+16E57", "U+16E58", "U+16E59", "U+16E5A", "U+16E5B", "U+16E5C",
     "U+16E5D", "U+16E5E", "U+16E5F", "U+16E60", "U+16E61", "U+16E62",
     "U+16E63", "U+16E64", "U+16E65", "U+16E66", "U+16E67", "U+16E68",
     "U+16E69", "U+16E6A", "U+16E6B", "U+16E6C", "U+16E6D", "U+16E6E",
     "U+16E6F", "U+16E70", "U+16E71", "U+16E72", "U+16E73", "U+16E74",
     "U+16E75", "U+16E76", "U+16E77", "U+16E78", "U+16E79", "U+16E7A",
     "U+16E7B", "U+16E7C", "U+16E7D", "U+16E7E", "U+16E7F", "U+1D400",
     "U+1D401", "U+1D402", "U+1D403", "U+1D404", "U+1D405", "U+1D406",
     "U+1D407", "U+1D408", "U+1D409", "U+1D40A", "U+1D40B", "U+1D40C",
     "U+1D40D", "U+1D40E", "U+1D40F", "U+1D410", "U+1D411", "U+1D412",
     "U+1D413", "U+1D414", "U+1D415", "U+1D416", "U+1D417", "U+1D418",
     "U+1D419", "U+1D41A", "U+1D41B", "U+1D41C", "U+1D41D", "U+1D41E",
     "U+1D41F", "U+1D420", "U+1D421", "U+1D422", "U+1D423", "U+1D424",
     "U+1D425", "U+1D426", "U+1D427", "U+1D428", "U+1D429", "U+1D42A",
     "U+1D42B", "U+1D42C", "U+1D42D", "U+1D42E", "U+1D42F", "U+1D430",
     "U+1D431", "U+1D432", "U+1D433", "U+1D434", "U+1D435", "U+1D436",
     "U+1D437", "U+1D438", "U+1D439", "U+1D43A", "U+1D43B", "U+1D43C",
     "U+1D43D", "U+1D43E", "U+1D43F", "U+1D440", "U+1D441", "U+1D442",
     "U+1D443", "U+1D444", "U+1D445", "U+1D446", "U+1D447", "U+1D448",
     "U+1D449", "U+1D44A", "U+1D44B", "U+1D44C", "U+1D44D", "U+1D44E",
     "U+1D44F", "U+1D450", "U+1D451", "U+1D452", "U+1D453", "U+1D454",
     "U+1D456", "U+1D457", "U+1D458", "U+1D459", "U+1D45A", "U+1D45B",
     "U+1D45C", "U+1D45D", "U+1D45E", "U+1D45F", "U+1D460", "U+1D461",
     "U+1D462", "U+1D463", "U+1D464", "U+1D465", "U+1D466", "U+1D467",
     "U+1D468", "U+1D469", "U+1D46A", "U+1D46B", "U+1D46C", "U+1D46D",
     "U+1D46E", "U+1D46F", "U+1D470", "U+1D471", "U+1D472", "U+1D473",
     "U+1D474", "U+1D475", "U+1D476", "U+1D477", "U+1D478", "U+1D479",
     "U+1D47A", "U+1D47B", "U+1D47C", "U+1D47D", "U+1D47E", "U+1D47F",
     "U+1D480", "U+1D481", "U+1D482", "U+1D483", "U+1D484", "U+1D485",
     "U+1D486", "U+1D487", "U+1D488", "U+1D489", "U+1D48A", "U+1D48B",
     "U+1D48C", "U+1D48D", "U+1D48E", "U+1D48F", "U+1D490", "U+1D491",
     "U+1D492", "U+1D493", "U+1D494", "U+1D495", "U+1D496", "U+1D497",
     "U+1D498", "U+1D499", "U+1D49A", "U+1D49B", "U+1D49C", "U+1D49E",
     "U+1D49F", "U+1D4A2", "U+1D4A5", "U+1D4A6", "U+1D4A9", "U+1D4AA",
     "U+1D4AB", "U+1D4AC", "U+1D4AE", "U+1D4AF", "U+1D4B0", "U+1D4B1",
     "U+1D4B2", "U+1D4B3", "U+1D4B4", "U+1D4B5", "U+1D4B6", "U+1D4B7",
     "U+1D4B8", "U+1D4B9", "U+1D4BB", "U+1D4BD", "U+1D4BE", "U+1D4BF",
     "U+1D4C0", "U+1D4C1", "U+1D4C2", "U+1D4C3", "U+1D4C5", "U+1D4C6",
     "U+1D4C7", "U+1D4C8", "U+1D4C9", "U+1D4CA", "U+1D4CB", "U+1D4CC",
     "U+1D4CD", "U+1D4CE", "U+1D4CF", "U+1D4D0", "U+1D4D1", "U+1D4D2",
     "U+1D4D3", "U+1D4D4", "U+1D4D5", "U+1D4D6", "U+1D4D7", "U+1D4D8",
     "U+1D4D9", "U+1D4DA", "U+1D4DB", "U+1D4DC", "U+1D4DD", "U+1D4DE",
     "U+1D4DF", "U+1D4E0", "U+1D4E1", "U+1D4E2", "U+1D4E3", "U+1D4E4",
     "U+1D4E5", "U+1D4E6", "U+1D4E7", "U+1D4E8", "U+1D4E9", "U+1D4EA",
     "U+1D4EB", "U+1D4EC", "U+1D4ED", "U+1D4EE", "U+1D4EF", "U+1D4F0",
     "U+1D4F1", "U+1D4F2", "U+1D4F3", "U+1D4F4", "U+1D4F5", "U+1D4F6",
     "U+1D4F7", "U+1D4F8", "U+1D4F9", "U+1D4FA", "U+1D4FB", "U+1D4FC",
     "U+1D4FD", "U+1D4FE", "U+1D4FF", "U+1D500", "U+1D501", "U+1D502",
     "U+1D503", "U+1D504", "U+1D505", "U+1D507", "U+1D508", "U+1D509",
     "U+1D50A", "U+1D50D", "U+1D50E", "U+1D50F", "U+1D510", "U+1D511",
     "U+1D512", "U+1D513", "U+1D514", "U+1D516", "U+1D517", "U+1D518",
     "U+1D519", "U+1D51A", "U+1D51B", "U+1D51C", "U+1D51E", "U+1D51F",
     "U+1D520", "U+1D521", "U+1D522", "U+1D523", "U+1D524", "U+1D525",
     "U+1D526", "U+1D527", "U+1D528", "U+1D529", "U+1D52A", "U+1D52B",
     "U+1D52C", "U+1D52D", "U+1D52E", "U+1D52F", "U+1D530", "U+1D531",
     "U+1D532", "U+1D533", "U+1D534", "U+1D535", "U+1D536", "U+1D537",
     "U+1D538", "U+1D539", "U+1D53B", "U+1D53C", "U+1D53D", "U+1D53E",
     "U+1D540", "U+1D541", "U+1D542", "U+1D543", "U+1D544", "U+1D546",
     "U+1D54A", "U+1D54B", "U+1D54C", "U+1D54D", "U+1D54E", "U+1D54F",
     "U+1D550", "U+1D552", "U+1D553", "U+1D554", "U+1D555", "U+1D556",
     "U+1D557", "U+1D558", "U+1D559", "U+1D55A", "U+1D55B", "U+1D55C",
     "U+1D55D", "U+1D55E", "U+1D55F", "U+1D560", "U+1D561", "U+1D562",
     "U+1D563", "U+1D564", "U+1D565", "U+1D566", "U+1D567", "U+1D568",
     "U+1D569", "U+1D56A", "U+1D56B", "U+1D56C", "U+1D56D", "U+1D56E",
     "U+1D56F", "U+1D570", "U+1D571", "U+1D572", "U+1D573", "U+1D574",
     "U+1D575", "U+1D576", "U+1D577", "U+1D578", "U+1D579", "U+1D57A",
     "U+1D57B", "U+1D57C", "U+1D57D", "U+1D57E", "U+1D57F", "U+1D580",
     "U+1D581", "U+1D582", "U+1D583", "U+1D584", "U+1D585", "U+1D586",
     "U+1D587", "U+1D588", "U+1D589", "U+1D58A", "U+1D58B", "U+1D58C",
     "U+1D58D", "U+1D58E", "U+1D58F", "U+1D590", "U+1D591", "U+1D592",
     "U+1D593", "U+1D594", "U+1D595", "U+1D596", "U+1D597", "U+1D598",
     "U+1D599", "U+1D59A", "U+1D59B", "U+1D59C", "U+1D59D", "U+1D59E",
     "U+1D59F", "U+1D5A0", "U+1D5A1", "U+1D5A2", "U+1D5A3", "U+1D5A4",
     "U+1D5A5", "U+1D5A6", "U+1D5A7", "U+1D5A8", "U+1D5A9", "U+1D5AA",
     "U+1D5AB", "U+1D5AC", "U+1D5AD", "U+1D5AE", "U+1D5AF", "U+1D5B0",
     "U+1D5B1", "U+1D5B2", "U+1D5B3", "U+1D5B4", "U+1D5B5", "U+1D5B6",
     "U+1D5B7", "U+1D5B8", "U+1D5B9", "U+1D5BA", "U+1D5BB", "U+1D5BC",
     "U+1D5BD", "U+1D5BE", "U+1D5BF", "U+1D5C0", "U+1D5C1", "U+1D5C2",
     "U+1D5C3", "U+1D5C4", "U+1D5C5", "U+1D5C6", "U+1D5C7", "U+1D5C8",
     "U+1D5C9", "U+1D5CA", "U+1D5CB", "U+1D5CC", "U+1D5CD", "U+1D5CE",
     "U+1D5CF", "U+1D5D0", "U+1D5D1", "U+1D5D2", "U+1D5D3", "U+1D5D4",
     "U+1D5D5", "U+1D5D6", "U+1D5D7", "U+1D5D8", "U+1D5D9", "U+1D5DA",
     "U+1D5DB", "U+1D5DC", "U+1D5DD", "U+1D5DE", "U+1D5DF", "U+1D5E0",
     "U+1D5E1", "U+1D5E2", "U+1D5E3", "U+1D5E4", "U+1D5E5", "U+1D5E6",
     "U+1D5E7", "U+1D5E8", "U+1D5E9", "U+1D5EA", "U+1D5EB", "U+1D5EC",
     "U+1D5ED", "U+1D5EE", "U+1D5EF", "U+1D5F0", "U+1D5F1", "U+1D5F2",
     "U+1D5F3", "U+1D5F4", "U+1D5F5", "U+1D5F6", "U+1D5F7", "U+1D5F8",
     "U+1D5F9", "U+1D5FA", "U+1D5FB", "U+1D5FC", "U+1D5FD", "U+1D5FE",
     "U+1D5FF", "U+1D600", "U+1D601", "U+1D602", "U+1D603", "U+1D604",
     "U+1D605", "U+1D606", "U+1D607", "U+1D608", "U+1D609", "U+1D60A",
     "U+1D60B", "U+1D60C", "U+1D60D", "U+1D60E", "U+1D60F", "U+1D610",
     "U+1D611", "U+1D612", "U+1D613", "U+1D614", "U+1D615", "U+1D616",
     "U+1D617", "U+1D618", "U+1D619", "U+1D61A", "U+1D61B", "U+1D61C",
     "U+1D61D", "U+1D61E", "U+1D61F", "U+1D620", "U+1D621", "U+1D622",
     "U+1D623", "U+1D624", "U+1D625", "U+1D626", "U+1D627", "U+1D628",
     "U+1D629", "U+1D62A", "U+1D62B", "U+1D62C", "U+1D62D", "U+1D62E",
     "U+1D62F", "U+1D630", "U+1D631", "U+1D632", "U+1D633", "U+1D634",
     "U+1D635", "U+1D636", "U+1D637", "U+1D638", "U+1D639", "U+1D63A",
     "U+1D63B", "U+1D63C", "U+1D63D", "U+1D63E", "U+1D63F", "U+1D640",
     "U+1D641", "U+1D642", "U+1D643", "U+1D644", "U+1D645", "U+1D646",
     "U+1D647", "U+1D648", "U+1D649", "U+1D64A", "U+1D64B", "U+1D64C",
     "U+1D64D", "U+1D64E", "U+1D64F", "U+1D650", "U+1D651", "U+1D652",
     "U+1D653", "U+1D654", "U+1D655", "U+1D656", "U+1D657", "U+1D658",
     "U+1D659", "U+1D65A", "U+1D65B", "U+1D65C", "U+1D65D", "U+1D65E",
     "U+1D65F", "U+1D660", "U+1D661", "U+1D662", "U+1D663", "U+1D664",
     "U+1D665", "U+1D666", "U+1D667", "U+1D668", "U+1D669", "U+1D66A",
     "U+1D66B", "U+1D66C", "U+1D66D", "U+1D66E", "U+1D66F", "U+1D670",
     "U+1D671", "U+1D672", "U+1D673", "U+1D674", "U+1D675", "U+1D676",
     "U+1D677", "U+1D678", "U+1D679", "U+1D67A", "U+1D67B", "U+1D67C",
     "U+1D67D", "U+1D67E", "U+1D67F", "U+1D680", "U+1D681", "U+1D682",
     "U+1D683", "U+1D684", "U+1D685", "U+1D686", "U+1D687", "U+1D688",
     "U+1D689", "U+1D68A", "U+1D68B", "U+1D68C", "U+1D68D", "U+1D68E",
     "U+1D68F", "U+1D690", "U+1D691", "U+1D692", "U+1D693", "U+1D694",
     "U+1D695", "U+1D696", "U+1D697", "U+1D698", "U+1D699", "U+1D69A",
     "U+1D69B", "U+1D69C", "U+1D69D", "U+1D69E", "U+1D69F", "U+1D6A0",
     "U+1D6A1", "U+1D6A2", "U+1D6A3", "U+1D6A4", "U+1D6A5", "U+1D6A8",
     "U+1D6A9", "U+1D6AA", "U+1D6AB", "U+1D6AC", "U+1D6AD", "U+1D6AE",
     "U+1D6AF", "U+1D6B0", "U+1D6B1", "U+1D6B2", "U+1D6B3", "U+1D6B4",
     "U+1D6B5", "U+1D6B6", "U+1D6B7", "U+1D6B8", "U+1D6B9", "U+1D6BA",
     "U+1D6BB", "U+1D6BC", "U+1D6BD", "U+1D6BE", "U+1D6BF", "U+1D6C0",
     "U+1D6C2", "U+1D6C3", "U+1D6C4", "U+1D6C5", "U+1D6C6", "U+1D6C7",
     "U+1D6C8", "U+1D6C9", "U+1D6CA", "U+1D6CB", "U+1D6CC", "U+1D6CD",
     "U+1D6CE", "U+1D6CF", "U+1D6D0", "U+1D6D1", "U+1D6D2", "U+1D6D3",
     "U+1D6D4", "U+1D6D5", "U+1D6D6", "U+1D6D7", "U+1D6D8", "U+1D6D9",
     "U+1D6DA", "U+1D6DC", "U+1D6DD", "U+1D6DE", "U+1D6DF", "U+1D6E0",
     "U+1D6E1", "U+1D6E2", "U+1D6E3", "U+1D6E4", "U+1D6E5", "U+1D6E6",
     "U+1D6E7", "U+1D6E8", "U+1D6E9", "U+1D6EA", "U+1D6EB", "U+1D6EC",
     "U+1D6ED", "U+1D6EE", "U+1D6EF", "U+1D6F0", "U+1D6F1", "U+1D6F2",
     "U+1D6F3", "U+1D6F4", "U+1D6F5", "U+1D6F6", "U+1D6F7", "U+1D6F8",
     "U+1D6F9", "U+1D6FA", "U+1D6FC", "U+1D6FD", "U+1D6FE", "U+1D6FF",
     "U+1D700", "U+1D701", "U+1D702", "U+1D703", "U+1D704", "U+1D705",
     "U+1D706", "U+1D707", "U+1D708", "U+1D709", "U+1D70A", "U+1D70B",
     "U+1D70C", "U+1D70D", "U+1D70E", "U+1D70F", "U+1D710", "U+1D711",
     "U+1D712", "U+1D713", "U+1D714", "U+1D716", "U+1D717", "U+1D718",
     "U+1D719", "U+1D71A", "U+1D71B", "U+1D71C", "U+1D71D", "U+1D71E",
     "U+1D71F", "U+1D720", "U+1D721", "U+1D722", "U+1D723", "U+1D724",
     "U+1D725", "U+1D726", "U+1D727", "U+1D728", "U+1D729", "U+1D72A",
     "U+1D72B", "U+1D72C", "U+1D72D", "U+1D72E", "U+1D72F", "U+1D730",
     "U+1D731", "U+1D732", "U+1D733", "U+1D734", "U+1D736", "U+1D737",
     "U+1D738", "U+1D739", "U+1D73A", "U+1D73B", "U+1D73C", "U+1D73D",
     "U+1D73E", "U+1D73F", "U+1D740", "U+1D741", "U+1D742", "U+1D743",
     "U+1D744", "U+1D745", "U+1D746", "U+1D747", "U+1D748", "U+1D749",
     "U+1D74A", "U+1D74B", "U+1D74C", "U+1D74D", "U+1D74E", "U+1D750",
     "U+1D751", "U+1D752", "U+1D753", "U+1D754", "U+1D755", "U+1D756",
     "U+1D757", "U+1D758", "U+1D759", "U+1D75A", "U+1D75B", "U+1D75C",
     "U+1D75D", "U+1D75E", "U+1D75F", "U+1D760", "U+1D761", "U+1D762",
     "U+1D763", "U+1D764", "U+1D765", "U+1D766", "U+1D767", "U+1D768",
     "U+1D769", "U+1D76A", "U+1D76B", "U+1D76C", "U+1D76D", "U+1D76E",
     "U+1D770", "U+1D771", "U+1D772", "U+1D773", "U+1D774", "U+1D775",
     "U+1D776", "U+1D777", "U+1D778", "U+1D779", "U+1D77A", "U+1D77B",
     "U+1D77C", "U+1D77D", "U+1D77E", "U+1D77F", "U+1D780", "U+1D781",
     "U+1D782", "U+1D783", "U+1D784", "U+1D785", "U+1D786", "U+1D787",
     "U+1D788", "U+1D78A", "U+1D78B", "U+1D78C", "U+1D78D", "U+1D78E",
     "U+1D78F", "U+1D790", "U+1D791", "U+1D792", "U+1D793", "U+1D794",
     "U+1D795", "U+1D796", "U+1D797", "U+1D798", "U+1D799", "U+1D79A",
     "U+1D79B", "U+1D79C", "U+1D79D", "U+1D79E", "U+1D79F", "U+1D7A0",
     "U+1D7A1", "U+1D7A2", "U+1D7A3", "U+1D7A4", "U+1D7A5", "U+1D7A6",
     "U+1D7A7", "U+1D7A8", "U+1D7AA", "U+1D7AB", "U+1D7AC", "U+1D7AD",
     "U+1D7AE", "U+1D7AF", "U+1D7B0", "U+1D7B1", "U+1D7B2", "U+1D7B3",
     "U+1D7B4", "U+1D7B5", "U+1D7B6", "U+1D7B7", "U+1D7B8", "U+1D7B9",
     "U+1D7BA", "U+1D7BB", "U+1D7BC", "U+1D7BD", "U+1D7BE", "U+1D7BF",
     "U+1D7C0", "U+1D7C1", "U+1D7C2", "U+1D7C4", "U+1D7C5", "U+1D7C6",
     "U+1D7C7", "U+1D7C8", "U+1D7C9", "U+1D7CA", "U+1D7CB", "U+1DF00",
     "U+1DF01", "U+1DF02", "U+1DF03", "U+1DF04", "U+1DF05", "U+1DF06",
     "U+1DF07", "U+1DF08", "U+1DF09", "U+1DF0B", "U+1DF0C", "U+1DF0D",
     "U+1DF0E", "U+1DF0F", "U+1DF10", "U+1DF11", "U+1DF12", "U+1DF13",
     "U+1DF14", "U+1DF15", "U+1DF16", "U+1DF17", "U+1DF18", "U+1DF19",
     "U+1DF1A", "U+1DF1B", "U+1DF1C", "U+1DF1D", "U+1DF1E", "U+1E900",
     "U+1E901", "U+1E902", "U+1E903", "U+1E904", "U+1E905", "U+1E906",
     "U+1E907", "U+1E908", "U+1E909", "U+1E90A", "U+1E90B", "U+1E90C",
     "U+1E90D", "U+1E90E", "U+1E90F", "U+1E910", "U+1E911", "U+1E912",
     "U+1E913", "U+1E914", "U+1E915", "U+1E916", "U+1E917", "U+1E918",
     "U+1E919", "U+1E91A", "U+1E91B", "U+1E91C", "U+1E91D", "U+1E91E",
     "U+1E91F", "U+1E920", "U+1E921", "U+1E922", "U+1E923", "U+1E924",
     "U+1E925", "U+1E926", "U+1E927", "U+1E928", "U+1E929", "U+1E92A",
     "U+1E92B", "U+1E92C", "U+1E92D", "U+1E92E", "U+1E92F", "U+1E930",
     "U+1E931", "U+1E932", "U+1E933", "U+1E934", "U+1E935", "U+1E936",
     "U+1E937", "U+1E938", "U+1E939", "U+1E93A", "U+1E93B", "U+1E93C",
     "U+1E93D", "U+1E93E", "U+1E93F", "U+1E940", "U+1E941", "U+1E942",
     "U+1E943", "U+1F130", "U+1F131", "U+1F132", "U+1F133", "U+1F134",
     "U+1F135", "U+1F136", "U+1F137", "U+1F138", "U+1F139", "U+1F13A",
     "U+1F13B", "U+1F13C", "U+1F13D", "U+1F13E", "U+1F13F", "U+1F140",
     "U+1F141", "U+1F142", "U+1F143", "U+1F144", "U+1F145", "U+1F146",
     "U+1F147", "U+1F148", "U+1F149", "U+1F150", "U+1F151", "U+1F152",
     "U+1F153", "U+1F154", "U+1F155", "U+1F156", "U+1F157", "U+1F158",
     "U+1F159", "U+1F15A", "U+1F15B", "U+1F15C", "U+1F15D", "U+1F15E",
     "U+1F15F", "U+1F160", "U+1F161", "U+1F162", "U+1F163", "U+1F164",
     "U+1F165", "U+1F166", "U+1F167", "U+1F168", "U+1F169", "U+1F170",
     "U+1F171", "U+1F172", "U+1F173", "U+1F174", "U+1F175", "U+1F176",
     "U+1F177", "U+1F178", "U+1F179", "U+1F17A", "U+1F17B", "U+1F17C",
     "U+1F17D", "U+1F17E", "U+1F17F", "U+1F180", "U+1F181", "U+1F182",
     "U+1F183", "U+1F184", "U+1F185", "U+1F186", "U+1F187", "U+1F188",
     "U+1F189"
    }

TitleOf == [c \in {p[1] : p \in TitlePairs} |-> (CHOOSE p \in TitlePairs : p[1] = c)[2]]
LowerOf == [c \in {p[1] : p \in LowerPairs} |-> (CHOOSE p \in LowerPairs : p[1] = c)[2]]

\* the title case of a character, as a sequence of characters
ToUpper(c) == IF c \in DOMAIN TitleOf THEN TitleOf[c] ELSE <<c>>

\* a capital sigma is final when a cased letter stands before it and none
\* after it, characters that case mapping ignores being passed over
FinalSigma(s, i) ==
    LET before == {j \in 1..(i - 1) : s[j] \notin CaseIgnorable}
        after == {j \in (i + 1)..Len(s) : s[j] \notin CaseIgnorable}
    IN  /\ before # {}
        /\ s[CHOOSE j \in before : \A m \in before : m <= j] \in Cased
        /\ after = {} \/ s[CHOOSE j \in after : \A m \in after : j <= m] \notin Cased

\* the lower case of the character at position i of s
ToLower(s, i) ==
    IF s[i] = "Σ" THEN (IF FinalSigma(s, i) THEN <<"ς">> ELSE <<"σ">>)
    ELSE IF s[i] \in DOMAIN LowerOf THEN LowerOf[s[i]] ELSE <<s[i]>>

RECURSIVE LowerFrom(_, _)
LowerFrom(s, i) == IF i > Len(s) THEN << >> ELSE ToLower(s, i) \o LowerFrom(s, i + 1)

Capitalize(s) == IF Len(s) = 0 THEN s ELSE ToUpper(s[1]) \o LowerFrom(s, 2)

(***************************************************************************)
(* Conversation states (checklist.py:21-37) and ConversationHandler.END.   *)
(***************************************************************************)
ELECTRONICS_OFF == 0
NASAL_RINSE == 1
NASAL_STRIPS == 2
MOUTH_TAPING == 3
SAUNA == 4
DIAPHRAGM_WORK == 5
HEAVY_SCREEN == 6
TRAINING == 7
LAST_MEAL_TIME == 8
CAFFEINE_CUTOFF == 9
HYDRATION == 10
SUPPLEMENTS == 11
MEDITATION == 12
MEDITATION_MINUTES == 13
WAITING_OTHER_TEXT == 14
END == -1

(***************************************************************************)
(* Callback data of the inline keyboards (checklist.py:39-65).             *)
(***************************************************************************)
TokYes == <<"1">>
TokNo == <<"0">>
TokOther == <<"o", "t", "h", "e", "r">>
TokGood == <<"g", "o", "o", "d">>
TokPoor == <<"p", "o", "o", "r">>
TokNone == <<"n", "o", "n", "e">>
TokStrength == <<"s", "t", "r", "e", "n", "g", "t", "h">>
TokCardio == <<"c", "a", "r", "d", "i", "o">>
TokZone2 == <<"z", "o", "n", "e", "2">>
TokSport == <<"s", "p", "o", "r", "t">>
TokSkip == <<"s", "k", "i", "p">>

YES_NO_KB == {TokYes, TokNo, TokOther}
HYDRATION_KB == {TokGood, TokPoor}
TRAINING_KB == {TokNone, TokStrength, TokCardio, TokZone2, TokSport, TokOther}
SUPPLEMENTS_KB == {TokNone}
SKIP_KB == {TokSkip}
\* reply_markup omitted
NoKb == {}

\* Every button any checklist message carries: the buttons of earlier
\* messages stay tappable, so any of them can arrive in any state.
Tokens == YES_NO_KB \cup HYDRATION_KB \cup TRAINING_KB \cup SUPPLEMENTS_KB \cup SKIP_KB

(***************************************************************************)
(* Inputs of the environment.                                              *)
(***************************************************************************)
TxtAbc == <<"a", "b", "c">>
Txt15 == <<"1", "5">>
Txt10 == <<"1", "0">>
Txt0 == <<"0">>
TxtNeg5 == <<"-", "5">>
Txt2230 == <<"2", "2", ":", "3", "0">>
TxtMagnesium == <<"M", "a", "g", "n", "e", "s", "i", "u", "m">>
TxtL == <<"l">>

\* Message texts a user sends (Telegram delivers text trimmed and non-empty):
\* those tried where the text is parsed as a number, and those tried elsewhere.
NumberTexts == {TxtAbc, Txt15, Txt10, Txt0, TxtNeg5}
VerbatimTexts == {TxtAbc, TokSkip, TxtL, Txt2230, TxtMagnesium}
Texts == NumberTexts \cup VerbatimTexts

ReferenceDay == "2025-06-01"
Days == {ReferenceDay, "2025-06-02"}
\* strftime("%H:%M") of the moment 'l' is sent
Times == {<<"1", "9", ":", "0", "5">>}

Chats == {"c1", "c2"}
Users == {"u1"}
\* ConversationHandler keys: per_chat and per_user are both on by default
Keys == Chats \X Users
\* the conversation driven in Spec
SpecKeys == {<<"c1", "u1">>}

(***************************************************************************)
(* State.                                                                  *)
(***************************************************************************)
\* no call of backfill is running
NoFrame == [pc |-> "idle"]

VARIABLES
    conv,             \* ConversationHandler state of each key; END: no conversation
    user_data,        \* context.user_data of each user (a dict)
    daily_checklist,  \* rows of table daily_checklist (date UNIQUE)
    last_meal_log,    \* rows of table last_meal_log (date UNIQUE)
    out,              \* messages sent while handling the last update
    last,             \* the last update and the handler that took it
    hist,             \* per key, history of the current session (observer only)
    offscript,        \* updates so far that depart from ReferenceInput
    faults,           \* upserts that failed since the last /checklist
    foreign,          \* updates so far that came from a chat outside SpecKeys
    oura_data,        \* rows of table oura_data (date PRIMARY KEY)
    frame,            \* the locals of the running call of backfill
    transcripts       \* rows of table transcripts, in the order of their ids

vars == <<conv, user_data, daily_checklist, last_meal_log, out, last, hist, offscript,
          faults, foreign, oura_data, frame, transcripts>>

\* the tables and locals the checklist conversation has nothing to do with
elsewhere == <<oura_data, frame, transcripts>>

(***************************************************************************)
(* Outgoing messages: reply_text / edit_message_text.  head is the part    *)
(* before the question, q the question, kb the reply_markup.               *)
(***************************************************************************)
Lit(s) == [t |-> "lit", l |-> s]
Msg(method, head, q, kb) == [method |-> method, head |-> head, q |-> q, kb |-> kb]

Q_ELECTRONICS == "Did you turn off electronics/lights 1h before sleep?"
Q_NASAL_RINSE == "Did you rinse your nose?"
Q_NASAL_STRIPS == "Did you use nasal strips?"
Q_MOUTH_TAPING == "Mouth taping?"
Q_SAUNA == "Did you do sauna?"
Q_DIAPHRAGM == "Did you do diaphragm work?"
Q_HEAVY_SCREEN == "Was it a heavy screen/social media day?"
Q_TRAINING == "Training?"
Q_TRAINING_TEXT == "What type of training? (type it)"
Q_LAST_MEAL == "What time was your last meal? (HH:MM or type 'skip')"
Q_CAFFEINE == "What time was your last caffeine? (HH:MM or type 'skip')"
Q_HYDRATION == "How was your hydration today?"
Q_SUPPLEMENTS == "Any supplements? Type what you took, or tap None."
Q_MEDITATION == "Did you meditate or do breathwork?"
Q_MINUTES == "How many minutes?"
Q_OTHER_NOTE == "Type your note for this question:"
Q_NUMBER == "Please enter a number (minutes)."
Q_NONE == ""

(***************************************************************************)
(* What a handler call yields: the state it returns, user_data and the     *)
(* table as it leaves them, the messages it sent, and the exception it     *)
(* raised if any.  When a handler raises, ConversationHandler keeps the    *)
(* conversation in its state; what the handler wrote before stays written. *)
(***************************************************************************)
Ok(state, ud, msgs) ==
    [state |-> state, ud |-> ud, rows |-> daily_checklist, out |-> msgs, error |-> "none"]
OkSaved(state, ud, msgs, rows) ==
    [state |-> state, ud |-> ud, rows |-> rows, out |-> msgs, error |-> "none"]
Raise(err, ud, msgs) ==
    [state |-> END, ud |-> ud, rows |-> daily_checklist, out |-> msgs, error |-> err]

HasChecklist(ud) == "checklist" \in DOMAIN ud
\* context.user_data["checklist"][key] = v
SetAnswer(ud, key, v) == Put(ud, "checklist", Put(ud["checklist"], key, v))

(***************************************************************************)
(* db.py                                                                   *)
(***************************************************************************)
AnswerColumns ==
    {"electronics_off", "nasal_rinse", "nasal_strips", "mouth_taping", "sauna",
     "diaphragm_work", "heavy_screen_day", "meditation", "meditation_minutes",
     "training_type", "last_meal_time", "caffeine_cutoff", "hydration", "supplements"}
RowColumns == AnswerColumns \cup {"date", "other_notes"}

\* Variant of OtherNotesJson: the other_notes column is left out of the INSERT.
OtherNotesJson_dropped(data) == None

\* json.dumps(other_notes) if other_notes else None
OtherNotesJson(data) ==
    LET other_notes == Get(data, "other_notes")
    IN  IF Truthy(other_notes) THEN [t |-> "json", d |-> other_notes.d] ELSE None

ChecklistRow(day, data) ==
    [c \in RowColumns |->
        CASE c = "date" -> day
          [] c = "other_notes" -> OtherNotesJson(data)
          [] OTHER -> Get(data, c)]

\* Variant of save_checklist: plain INSERT, the earlier row of the day stays.
save_checklist_insert_only(rows, day, data) == rows \cup {ChecklistRow(day, data)}

\* INSERT OR REPLACE INTO daily_checklist: the row that conflicts on the
\* UNIQUE date is deleted, then the new row is inserted.
save_checklist(rows, day, data) ==
    {r \in rows : r["date"] # day} \cup {ChecklistRow(day, data)}

\* INSERT OR REPLACE INTO last_meal_log (date, time)
save_last_meal_time(rows, day, time_str) ==
    {r \in rows : r.date # day} \cup {[date |-> day, time |-> time_str]}

\* SELECT time FROM last_meal_log WHERE date = ?  ->  row["time"] if row else None
get_last_meal_time(rows, day) ==
    IF \E r \in rows : r.date = day
    THEN StrV((CHOOSE r \in rows : r.date = day).time)
    ELSE None

\* The days of the rows a range is asked over, and the characters of each:
\* the date column is TEXT, compared byte by byte (BINARY collation).
ListDays == {"2025-05-31", "2025-06-01", "2025-06-02", "2025-06-10"}
DayChars(d) ==
    CASE d = "2025-05-31" -> <<"2", "0", "2", "5", "-", "0", "5", "-", "3", "1">>
      [] d = "2025-06-01" -> <<"2", "0", "2", "5", "-", "0", "6", "-", "0", "1">>
      [] d = "2025-06-02" -> <<"2", "0", "2", "5", "-", "0", "6", "-", "0", "2">>
      [] d = "2025-06-10" -> <<"2", "0", "2", "5", "-", "0", "6", "-", "1", "0">>

\* "-" is byte 45, the digits are bytes 48..57
ByteOf(c) == IF c = "-" THEN 45 ELSE 48 + DigitVal(c)

\* a <= b for TEXT values: the first differing byte decides, a prefix is less
RECURSIVE TextLeq(_, _)
TextLeq(a, b) ==
    IF Len(a) = 0 THEN TRUE
    ELSE IF Len(b) = 0 THEN FALSE
    ELSE IF ByteOf(Head(a)) # ByteOf(Head(b)) THEN ByteOf(Head(a)) < ByteOf(Head(b))
    ELSE TextLeq(Tail(a), Tail(b))

DateLeq(d1, d2) == TextLeq(DayChars(d1), DayChars(d2))

\* ORDER BY date: the rows of S as a sequence, least date first
RECURSIVE OrderByDate(_)
OrderByDate(S) ==
    IF S = {} THEN << >>
    ELSE LET m == CHOOSE r \in S : \A q \in S : DateLeq(r["date"], q["date"])
         IN  <<m>> \o OrderByDate(S \ {m})

\* Variant of get_checklists: the end of the range is left out.
get_checklists_exclusive_end(rows, start, end) ==
    OrderByDate({r \in rows : DateLeq(start, r["date"]) /\ ~DateLeq(end, r["date"])})

\* SELECT * FROM daily_checklist WHERE date >= ? AND date <= ? ORDER BY date
get_checklists(rows, start, end) ==
    OrderByDate({r \in rows : DateLeq(start, r["date"]) /\ DateLeq(r["date"], end)})

(***************************************************************************)
(* checklist.py: the summary.                                              *)
(***************************************************************************)
\* Variant of yn: the notes are not looked at.
yn_without_notes(val, other_notes, key) ==
    IF val = None THEN Lit("-")
    ELSE IF Truthy(val) THEN Lit("Yes") ELSE Lit("No")

yn(val, other_notes, key) ==
    IF val = None /\ DOMAIN other_notes # {} /\ key \in DOMAIN other_notes
    THEN [t |-> "other", s |-> other_notes[key]]
    ELSE IF val = None THEN Lit("-")
    ELSE IF Truthy(val) THEN Lit("Yes") ELSE Lit("No")

OrElse(v, default) == IF Truthy(v) THEN v ELSE default

format_summary(day, data) ==
    LET n == Get(data, "other_notes")
        notes == IF Truthy(n) THEN n.d ELSE EmptyDict
        hyd == Get(data, "hydration")
    IN  [day |-> day,
         electronics_off |-> yn(Get(data, "electronics_off"), notes, "electronics_off"),
         nasal_rinse |-> yn(Get(data, "nasal_rinse"), notes, "nasal_rinse"),
         nasal_strips |-> yn(Get(data, "nasal_strips"), notes, "nasal_strips"),
         mouth_taping |-> yn(Get(data, "mouth_taping"), notes, "mouth_taping"),
         sauna |-> yn(Get(data, "sauna"), notes, "sauna"),
         diaphragm_work |-> yn(Get(data, "diaphragm_work"), notes, "diaphragm_work"),
         heavy_screen_day |-> yn(Get(data, "heavy_screen_day"), notes, "heavy_screen_day"),
         training |-> OrElse(Get(data, "training_type"), Lit("None")),
         meal |-> OrElse(Get(data, "last_meal_time"), Lit("-")),
         caffeine |-> OrElse(Get(data, "caffeine_cutoff"), Lit("-")),
         hydration |-> IF Truthy(hyd) THEN StrV(Capitalize(hyd.s)) ELSE Lit("-"),
         supps |-> OrElse(Get(data, "supplements"), Lit("None")),
         meditation |-> yn(Get(data, "meditation"), notes, "meditation"),
         med_min |-> OrElse(Get(data, "meditation_minutes"), Lit(""))]

(***************************************************************************)
(* checklist.py: the handlers.  Each takes the user_data dict of the       *)
(* update's user and the update's payload and yields a result.             *)
(***************************************************************************)
\* _init_data
\* Variant of init_data: a pending answer that is still there is kept.
init_data_keeps(ud, for_date) ==
    IF HasChecklist(ud) THEN Put(ud, "checklist_date", for_date)
    ELSE Put(Put(ud, "checklist", EmptyDict), "checklist_date", for_date)

init_data(ud, for_date) == Put(Put(ud, "checklist", EmptyDict), "checklist_date", for_date)

\* Variant of checklist_start: the day argument is not looked at.
checklist_start_ignores_args(ud, args, today) ==
    Ok(ELECTRONICS_OFF, init_data(ud, today),
       <<Msg("reply", Lit(today), Q_ELECTRONICS, YES_NO_KB)>>)

\* args: the command's arguments; today: date.today().isoformat()
checklist_start(ud, args, today) ==
    LET day == IF Len(args) > 0 THEN args[1] ELSE today
    IN  Ok(ELECTRONICS_OFF, init_data(ud, day),
           <<Msg("reply", Lit(day), Q_ELECTRONICS, YES_NO_KB)>>)

KbOr(kb, default) == IF kb = NoKb THEN default ELSE kb

handle_yn(ud, data, key, next_q, next_state, next_kb) ==
    IF data = TokOther
    THEN Ok(WAITING_OTHER_TEXT,
            Put(ud, "other_pending",
                [key |-> key, next_q |-> next_q, next_state |-> next_state,
                 next_kb |-> next_kb]),
            <<Msg("edit", Lit(""), Q_OTHER_NOTE, NoKb)>>)
    ELSE IF ~PyInt(data).ok THEN Raise("ValueError", ud, << >>)
    ELSE IF ~HasChecklist(ud) THEN Raise("KeyError", ud, << >>)
    ELSE Ok(next_state,
            SetAnswer(ud, key, IntV(PyInt(data).v)),
            <<Msg("edit", Lit(IF data = TokYes THEN "Yes" ELSE "No"), next_q,
                  KbOr(next_kb, YES_NO_KB))>>)

\* Variant of waiting_other_text: resumes with the yes/no keyboard whatever
\* keyboard the deferred question has.
waiting_other_text_yes_no_kb(ud, msg_text) ==
    LET text == Strip(msg_text)
        pending == ud["other_pending"]
        ud1 == SetAnswer(Pop(ud, "other_pending"), pending.key, None)
        notes == IF "other_notes" \in DOMAIN ud1["checklist"]
                 THEN ud1["checklist"]["other_notes"].d ELSE EmptyDict
    IN  Ok(pending.next_state,
           SetAnswer(ud1, "other_notes", DictV(Put(notes, pending.key, text))),
           <<Msg("reply", StrV(text), pending.next_q, YES_NO_KB)>>)

waiting_other_text(ud, msg_text) ==
    LET text == Strip(msg_text) IN
    IF "other_pending" \notin DOMAIN ud THEN Raise("KeyError", ud, << >>)
    ELSE
    LET pending == ud["other_pending"]
        ud1 == Pop(ud, "other_pending")
    IN  IF ~HasChecklist(ud1) THEN Raise("KeyError", ud1, << >>)
        ELSE
        LET ud2 == SetAnswer(ud1, pending.key, None)
            notes == IF "other_notes" \in DOMAIN ud2["checklist"]
                     THEN ud2["checklist"]["other_notes"].d ELSE EmptyDict
            ud3 == SetAnswer(ud2, "other_notes", DictV(Put(notes, pending.key, text)))
        IN  Ok(pending.next_state, ud3,
               <<Msg("reply", StrV(text), pending.next_q,
                     KbOr(pending.next_kb, YES_NO_KB))>>)

electronics_off(ud, data) ==
    handle_yn(ud, data, "electronics_off", Q_NASAL_RINSE, NASAL_RINSE, NoKb)
nasal_rinse(ud, data) ==
    handle_yn(ud, data, "nasal_rinse", Q_NASAL_STRIPS, NASAL_STRIPS, NoKb)
nasal_strips(ud, data) ==
    handle_yn(ud, data, "nasal_strips", Q_MOUTH_TAPING, MOUTH_TAPING, NoKb)
mouth_taping(ud, data) ==
    handle_yn(ud, data, "mouth_taping", Q_SAUNA, SAUNA, NoKb)
sauna(ud, data) ==
    handle_yn(ud, data, "sauna", Q_DIAPHRAGM, DIAPHRAGM_WORK, NoKb)
diaphragm_work(ud, data) ==
    handle_yn(ud, data, "diaphragm_work", Q_HEAVY_SCREEN, HEAVY_SCREEN, NoKb)
\* Variant of heavy_screen: goes on to the meal question, past Training.
heavy_screen_skips_training(ud, data) ==
    handle_yn(ud, data, "heavy_screen_day", Q_LAST_MEAL, LAST_MEAL_TIME, SKIP_KB)

heavy_screen(ud, data) ==
    handle_yn(ud, data, "heavy_screen_day", Q_TRAINING, TRAINING, TRAINING_KB)

\* Variant of after_training: the side log is not consulted.
after_training_always_ask(ud, method, label) ==
    Ok(LAST_MEAL_TIME, ud, <<Msg(method, label, Q_LAST_MEAL, SKIP_KB)>>)

\* Variant of after_training: an entry of any day counts.
after_training_any_day(ud, method, label) ==
    IF last_meal_log # {}
    THEN Ok(CAFFEINE_CUTOFF,
            SetAnswer(ud, "last_meal_time",
                      StrV((CHOOSE r \in last_meal_log : TRUE).time)),
            <<Msg(method, label, Q_CAFFEINE, SKIP_KB)>>)
    ELSE Ok(LAST_MEAL_TIME, ud, <<Msg(method, label, Q_LAST_MEAL, SKIP_KB)>>)

\* The part training and training_text share: look the side log up for the
\* session's day; a logged meal is stored and LAST_MEAL_TIME is skipped.
after_training(ud, method, label) ==
    IF "checklist_date" \notin DOMAIN ud THEN Raise("KeyError", ud, << >>)
    ELSE
    LET logged_meal == get_last_meal_time(last_meal_log, ud["checklist_date"])
    IN  IF Truthy(logged_meal)
        THEN Ok(CAFFEINE_CUTOFF, SetAnswer(ud, "last_meal_time", logged_meal),
                <<Msg(method, label, Q_CAFFEINE, SKIP_KB)>>)
        ELSE Ok(LAST_MEAL_TIME, ud, <<Msg(method, label, Q_LAST_MEAL, SKIP_KB)>>)

\* Variant of training: Other goes through the slot and the state the
\* boolean questions use.
training_via_override(ud, data) ==
    IF data = TokOther
    THEN handle_yn(ud, data, "training_type", Q_LAST_MEAL, LAST_MEAL_TIME, SKIP_KB)
    ELSE IF data = TokNone
    THEN after_training(SetAnswer(ud, "training_type", None), "edit", Lit("No training"))
    ELSE after_training(SetAnswer(ud, "training_type", StrV(data)), "edit",
                        StrV(Capitalize(data)))

training(ud, data) ==
    IF data = TokOther
    THEN Ok(TRAINING, ud, <<Msg("edit", Lit(""), Q_TRAINING_TEXT, NoKb)>>)
    ELSE IF ~HasChecklist(ud) THEN Raise("KeyError", ud, << >>)
    ELSE IF data = TokNone
    THEN after_training(SetAnswer(ud, "training_type", None), "edit", Lit("No training"))
    ELSE after_training(SetAnswer(ud, "training_type", StrV(data)), "edit",
                        StrV(Capitalize(data)))

training_text(ud, msg_text) ==
    IF ~HasChecklist(ud) THEN Raise("KeyError", ud, << >>)
    ELSE after_training(SetAnswer(ud, "training_type", StrV(Strip(msg_text))), "reply",
                        StrV(Strip(msg_text)))

\* Variant of last_meal_time: a text without a colon is asked for again.
last_meal_time_checked(ud, kind, payload) ==
    IF kind = "callback"
    THEN Ok(CAFFEINE_CUTOFF, SetAnswer(ud, "last_meal_time", None),
            <<Msg("edit", Lit("Skipped."), Q_CAFFEINE, SKIP_KB)>>)
    ELSE IF \A i \in 1..Len(payload) : payload[i] # ":"
    THEN Ok(LAST_MEAL_TIME, ud, <<Msg("reply", Lit(""), Q_LAST_MEAL, SKIP_KB)>>)
    ELSE Ok(CAFFEINE_CUTOFF, SetAnswer(ud, "last_meal_time", StrV(Strip(payload))),
            <<Msg("reply", StrV(Strip(payload)), Q_CAFFEINE, SKIP_KB)>>)

\* kind is "callback" for the CallbackQueryHandler registration of the
\* function and "text" for its MessageHandler registration
last_meal_time(ud, kind, payload) ==
    IF ~HasChecklist(ud) THEN Raise("KeyError", ud, << >>)
    ELSE IF kind = "callback"
    THEN Ok(CAFFEINE_CUTOFF, SetAnswer(ud, "last_meal_time", None),
            <<Msg("edit", Lit("Skipped."), Q_CAFFEINE, SKIP_KB)>>)
    ELSE Ok(CAFFEINE_CUTOFF, SetAnswer(ud, "last_meal_time", StrV(Strip(payload))),
            <<Msg("reply", StrV(Strip(payload)), Q_CAFFEINE, SKIP_KB)>>)

\* Variant of caffeine_cutoff: a text without a colon is asked again.
caffeine_cutoff_checked(ud, kind, payload) ==
    IF ~HasChecklist(ud) THEN Raise("KeyError", ud, << >>)
    ELSE IF kind = "callback"
    THEN Ok(HYDRATION, SetAnswer(ud, "caffeine_cutoff", None),
            <<Msg("edit", Lit("Skipped."), Q_HYDRATION, HYDRATION_KB)>>)
    ELSE IF \A i \in 1..Len(payload) : payload[i] # ":"
    THEN Ok(CAFFEINE_CUTOFF, ud, <<Msg("reply", Lit(""), Q_CAFFEINE, SKIP_KB)>>)
    ELSE Ok(HYDRATION, SetAnswer(ud, "caffeine_cutoff", StrV(Strip(payload))),
            <<Msg("reply", StrV(Strip(payload)), Q_HYDRATION, HYDRATION_KB)>>)

caffeine_cutoff(ud, kind, payload) ==
    IF ~HasChecklist(ud) THEN Raise("KeyError", ud, << >>)
    ELSE IF kind = "callback"
    THEN Ok(HYDRATION, SetAnswer(ud, "caffeine_cutoff", None),
            <<Msg("edit", Lit("Skipped."), Q_HYDRATION, HYDRATION_KB)>>)
    ELSE Ok(HYDRATION, SetAnswer(ud, "caffeine_cutoff", StrV(Strip(payload))),
            <<Msg("reply", StrV(Strip(payload)), Q_HYDRATION, HYDRATION_KB)>>)

\* Variant of hydration: stores the label shown on the button.
hydration_capitalized(ud, data) ==
    Ok(SUPPLEMENTS, SetAnswer(ud, "hydration", StrV(Capitalize(data))),
       <<Msg("edit", StrV(Capitalize(data)), Q_SUPPLEMENTS, SUPPLEMENTS_KB)>>)

hydration(ud, data) ==
    IF ~HasChecklist(ud) THEN Raise("KeyError", ud, << >>)
    ELSE Ok(SUPPLEMENTS, SetAnswer(ud, "hydration", StrV(data)),
            <<Msg("edit", StrV(Capitalize(data)), Q_SUPPLEMENTS, SUPPLEMENTS_KB)>>)

supplements_btn(ud, data) ==
    IF ~HasChecklist(ud) THEN Raise("KeyError", ud, << >>)
    ELSE Ok(MEDITATION, SetAnswer(ud, "supplements", None),
            <<Msg("edit", Lit("No supplements."), Q_MEDITATION, YES_NO_KB)>>)

\* Variant of supplements_text: the answers so far are saved on the way.
supplements_text_autosave(ud, msg_text) ==
    IF ~HasChecklist(ud) \/ "checklist_date" \notin DOMAIN ud
    THEN Raise("KeyError", ud, << >>)
    ELSE LET ud1 == SetAnswer(ud, "supplements", StrV(Strip(msg_text)))
         IN  OkSaved(MEDITATION, ud1,
                     <<Msg("reply", StrV(Strip(msg_text)), Q_MEDITATION, YES_NO_KB)>>,
                     save_checklist(daily_checklist, ud1["checklist_date"],
                                    ud1["checklist"]))

supplements_text(ud, msg_text) ==
    IF ~HasChecklist(ud) THEN Raise("KeyError", ud, << >>)
    ELSE Ok(MEDITATION, SetAnswer(ud, "supplements", StrV(Strip(msg_text))),
            <<Msg("reply", StrV(Strip(msg_text)), Q_MEDITATION, YES_NO_KB)>>)

\* Variant of save_and_summarize: the conversation is left open at the
\* question that was answered last.
save_and_summarize_stays_open(ud, method, sent, upsert_ok) ==
    IF ~upsert_ok THEN Raise("OperationalError", ud, sent)
    ELSE OkSaved(MEDITATION, ud,
                 Append(sent, Msg(method, format_summary(ud["checklist_date"],
                                                         ud["checklist"]), Q_NONE, NoKb)),
                 save_checklist(daily_checklist, ud["checklist_date"], ud["checklist"]))

\* Variant of save_and_summarize: the session data is dropped before the
\* upsert is tried.
save_and_summarize_drop_first(ud, method, sent, upsert_ok) ==
    IF ~HasChecklist(ud) \/ "checklist_date" \notin DOMAIN ud
    THEN Raise("KeyError", ud, sent)
    ELSE IF ~upsert_ok
    THEN Raise("OperationalError", Pop(Pop(ud, "checklist"), "checklist_date"), sent)
    ELSE OkSaved(END, Pop(Pop(ud, "checklist"), "checklist_date"),
                 Append(sent, Msg(method, format_summary(ud["checklist_date"],
                                                         ud["checklist"]), Q_NONE, NoKb)),
                 save_checklist(daily_checklist, ud["checklist_date"], ud["checklist"]))

\* _save_and_summarize (method "edit") and _save_and_summarize_msg ("reply");
\* sent: what the handler sent before it; upsert_ok: whether sqlite carries
\* the INSERT OR REPLACE out (it raises sqlite3.OperationalError otherwise,
\* before the summary is sent)
save_and_summarize(ud, method, sent, upsert_ok) ==
    IF ~HasChecklist(ud) \/ "checklist_date" \notin DOMAIN ud
    THEN Raise("KeyError", ud, sent)
    ELSE IF ~upsert_ok THEN Raise("OperationalError", ud, sent)
    ELSE
    LET data == ud["checklist"]
        day == ud["checklist_date"]
    IN  OkSaved(END, ud,
                Append(sent, Msg(method, format_summary(day, data), Q_NONE, NoKb)),
                save_checklist(daily_checklist, day, data))

\* Variant of meditation: asks for the minutes after No as well.
meditation_always_minutes(ud, data, upsert_ok) ==
    IF ~PyInt(data).ok THEN Raise("ValueError", ud, << >>)
    ELSE Ok(MEDITATION_MINUTES, SetAnswer(ud, "meditation", IntV(PyInt(data).v)),
            <<Msg("edit", Lit(""), Q_MINUTES, NoKb)>>)

meditation(ud, data, upsert_ok) ==
    IF ~PyInt(data).ok THEN Raise("ValueError", ud, << >>)
    ELSE IF ~HasChecklist(ud) THEN Raise("KeyError", ud, << >>)
    ELSE
    LET val == PyInt(data).v
        ud1 == SetAnswer(ud, "meditation", IntV(val))
    IN  IF val = 1
        THEN Ok(MEDITATION_MINUTES, ud1, <<Msg("edit", Lit(""), Q_MINUTES, NoKb)>>)
        ELSE save_and_summarize(SetAnswer(ud1, "meditation_minutes", None), "edit", << >>,
                                upsert_ok)

\* Variant of meditation_minutes: text that is no number is saved as no minutes.
meditation_minutes_no_retry(ud, msg_text, upsert_ok) ==
    IF ~PyInt(Strip(msg_text)).ok
    THEN save_and_summarize(SetAnswer(ud, "meditation_minutes", None), "reply", << >>,
                            upsert_ok)
    ELSE save_and_summarize(
             SetAnswer(ud, "meditation_minutes", IntV(PyInt(Strip(msg_text)).v)),
             "reply", <<Msg("reply", Lit("Got it."), Q_NONE, NoKb)>>, upsert_ok)

meditation_minutes(ud, msg_text, upsert_ok) ==
    LET text == Strip(msg_text) IN
    IF ~PyInt(text).ok
    THEN Ok(MEDITATION_MINUTES, ud, <<Msg("reply", Lit(""), Q_NUMBER, NoKb)>>)
    ELSE IF ~HasChecklist(ud) THEN Raise("KeyError", ud, << >>)
    ELSE save_and_summarize(SetAnswer(ud, "meditation_minutes", IntV(PyInt(text).v)),
                            "reply", <<Msg("reply", Lit("Got it."), Q_NONE, NoKb)>>,
                            upsert_ok)

\* Variant of cancel: what was answered so far is saved before it is dropped.
cancel_saving(ud) ==
    OkSaved(END, Pop(Pop(ud, "checklist"), "checklist_date"),
            <<Msg("reply", Lit("Checklist cancelled."), Q_NONE, NoKb)>>,
            IF HasChecklist(ud) /\ "checklist_date" \in DOMAIN ud
            THEN save_checklist(daily_checklist, ud["checklist_date"], ud["checklist"])
            ELSE daily_checklist)

cancel(ud) ==
    Ok(END, Pop(Pop(ud, "checklist"), "checklist_date"),
       <<Msg("reply", Lit("Checklist cancelled."), Q_NONE, NoKb)>>)

(***************************************************************************)
(* handlers.py: the 'l' shortcut.  now_day, now_time: datetime.now(DUBAI_TZ)*)
(***************************************************************************)
Q_MEAL_LOGGED == "Last meal logged at"

\* Variant of last_meal_handler: the reply is sent, nothing is saved.
last_meal_handler_reply_only(rows, now_day, now_time, save_ok) ==
    IF ~save_ok THEN [rows |-> rows, out |-> << >>, error |-> "OperationalError"]
    ELSE [rows |-> rows,
          out |-> <<Msg("reply", StrV(now_time), Q_MEAL_LOGGED, NoKb)>>,
          error |-> "none"]

\* save_ok: the INSERT OR REPLACE of save_last_meal_time is carried out; it
\* raises sqlite3.OperationalError otherwise, nothing catches it, and the
\* reply is not sent
last_meal_handler(rows, now_day, now_time, save_ok) ==
    IF ~save_ok THEN [rows |-> rows, out |-> << >>, error |-> "OperationalError"]
    ELSE [rows |-> save_last_meal_time(rows, now_day, now_time),
          out |-> <<Msg("reply", StrV(now_time), Q_MEAL_LOGGED, NoKb)>>,
          error |-> "none"]

\* filters.Regex(r"^[lL]$")
MatchesL(text) ==
    text \in {<<"l">>, <<"L">>, <<"l", "\n">>, <<"L", "\n">>}

(***************************************************************************)
(* checklist.py build_checklist_handler, main.py main: which handler takes *)
(* an update.  Inside a conversation only the handlers of its state and    *)
(* the fallback are tried (allow_reentry is off); an update the            *)
(* conversation does not take goes on to the later handlers of main.       *)
(***************************************************************************)
BooleanStates ==
    {ELECTRONICS_OFF, NASAL_RINSE, NASAL_STRIPS, MOUTH_TAPING, SAUNA, DIAPHRAGM_WORK,
     HEAVY_SCREEN}
\* states with a CallbackQueryHandler
CallbackStates ==
    BooleanStates \cup {TRAINING, LAST_MEAL_TIME, CAFFEINE_CUTOFF, HYDRATION, SUPPLEMENTS,
                        MEDITATION}
\* states with a MessageHandler(filters.TEXT & ~filters.COMMAND, ...)
TextStates ==
    {TRAINING, LAST_MEAL_TIME, CAFFEINE_CUTOFF, SUPPLEMENTS, MEDITATION_MINUTES,
     WAITING_OTHER_TEXT}
QuestionStates == CallbackStates \cup TextStates

(***************************************************************************)
(* The plain run: No to every boolean question, no training, both times    *)
(* as in the spec's end-to-end scenario, 15 minutes of meditation, "abc"   *)
(* as the note after Other.  Other inputs are explored up to MaxOffScript  *)
(* of them per run; the note "l" after Other is not counted as one.        *)
(***************************************************************************)
ReferenceInput(st) ==
    CASE st \in BooleanStates -> <<"callback", TokNo>>
      [] st = TRAINING -> <<"callback", TokNone>>
      [] st = LAST_MEAL_TIME -> <<"callback", TokSkip>>
      [] st = CAFFEINE_CUTOFF -> <<"text", Txt2230>>
      [] st = HYDRATION -> <<"callback", TokPoor>>
      [] st = SUPPLEMENTS -> <<"text", TxtMagnesium>>
      [] st = MEDITATION -> <<"callback", TokYes>>
      [] st = MEDITATION_MINUTES -> <<"text", Txt15>>
      [] st = WAITING_OTHER_TEXT -> <<"text", TxtAbc>>
      [] OTHER -> <<"none", << >>>>

Cost(st, kind, payload) == IF <<kind, payload>> = ReferenceInput(st) THEN 0 ELSE 1

\* key k was just asked to type its training: typing "abc" is the plain reply
AskedTrainingText(k) ==
    /\ conv[k] = TRAINING
    /\ last.key = k
    /\ last.handler = "training"
    /\ last.payload = TokOther

\* key k was asked to type its note, and the note is the letter l
TypedNoteL(k, kind, payload) ==
    conv[k] = WAITING_OTHER_TEXT /\ <<kind, payload>> = <<"text", TxtL>>

Charge(k, kind, payload) ==
    LET c == IF \/ AskedTrainingText(k) /\ <<kind, payload>> = <<"text", TxtAbc>>
                \/ TypedNoteL(k, kind, payload)
             THEN 0 ELSE Cost(conv[k], kind, payload)
    IN  /\ offscript + c <= MaxOffScript
        /\ offscript' = offscript + c

(***************************************************************************)
(* History of a key's current session, kept for the properties only.       *)
(***************************************************************************)
\* the inputs a state accepts, by the spec's section 4.1
Accepted(st, kind, payload) ==
    CASE st \in BooleanStates -> kind = "callback" /\ payload \in YES_NO_KB
      [] st = TRAINING -> kind = "text" \/ (kind = "callback" /\ payload \in TRAINING_KB)
      [] st \in {LAST_MEAL_TIME, CAFFEINE_CUTOFF} ->
            kind = "text" \/ (kind = "callback" /\ payload = TokSkip)
      [] st = HYDRATION -> kind = "callback" /\ payload \in HYDRATION_KB
      [] st = SUPPLEMENTS -> kind = "text" \/ (kind = "callback" /\ payload = TokNone)
      [] st = MEDITATION -> kind = "callback" /\ payload \in {TokYes, TokNo}
      [] st \in {MEDITATION_MINUTES, WAITING_OTHER_TEXT} -> kind = "text"
      [] OTHER -> FALSE

Unaccepted == <<"unaccepted", << >>>>

\* the two accepted inputs that ask again: Other at TRAINING (type it), and
\* text at MEDITATION_MINUTES that int() refuses
SelfLoopInput(st, kind, payload) ==
    \/ st = TRAINING /\ kind = "callback" /\ payload = TokOther
    \/ st = MEDITATION_MINUTES /\ kind = "text" /\ ~PyInt(payload).ok

\* inputs are counted up to one more than the questions of a checklist
InputsCeiling == 15

NoHist == [day |-> "", visited |-> {}, detour_from |-> END, log_seen |-> None,
           store_at_start |-> {}, refused |-> FALSE, answers |-> << >>,
           upsert_failed |-> FALSE, before_fault |-> [ud |-> << >>, rows |-> {}],
           asked_training_text |-> FALSE, inputs |-> 0]

LogEntry(day) ==
    IF \E r \in last_meal_log : r.date = day
    THEN StrV((CHOOSE r \in last_meal_log : r.date = day).time) ELSE None

\* answers: per state, the last input its handler took without raising, as
\* <<kind, payload>> when the state accepts it by the spec and as Unaccepted
\* otherwise;
\* before_fault: user_data and the table as the last input whose upsert
\* failed found them;
\* inputs: how many inputs that the state accepts by the spec were handled
\* without raising, the two that ask again not counted
HistAfter(k, kind, payload, r) ==
    LET h == hist[k]
        to == IF r.error = "none" THEN r.state ELSE conv[k]
    IN  [h EXCEPT
           !.visited = IF to = END THEN @ ELSE @ \cup {to},
           !.detour_from = IF to = WAITING_OTHER_TEXT /\ conv[k] # WAITING_OTHER_TEXT
                           THEN conv[k] ELSE @,
           !.log_seen = IF conv[k] = TRAINING /\ to # TRAINING THEN LogEntry(h.day) ELSE @,
           !.refused = @ \/ (conv[k] = MEDITATION_MINUTES /\ to = MEDITATION_MINUTES
                                /\ r.error = "none"),
           !.answers = IF r.error = "none"
                       THEN Put(@, conv[k], IF Accepted(conv[k], kind, payload)
                                            THEN <<kind, payload>> ELSE Unaccepted)
                       ELSE @,
           !.upsert_failed = @ \/ r.error = "OperationalError",
           !.before_fault = IF r.error = "OperationalError"
                            THEN [ud |-> user_data[k[2]], rows |-> daily_checklist]
                            ELSE @,
           !.asked_training_text =
               @ \/ (conv[k] = TRAINING /\ kind = "callback" /\ payload = TokOther
                      /\ r.error = "none"),
           !.inputs = IF /\ r.error = "none"
                         /\ Accepted(conv[k], kind, payload)
                         /\ ~SelfLoopInput(conv[k], kind, payload)
                         /\ @ < InputsCeiling
                      THEN @ + 1 ELSE @]

(***************************************************************************)
(* One update handled: the conversation, user_data and the table become    *)
(* what the handler left; a handler that raised leaves the state as it was.*)
(***************************************************************************)
Handled(k, name, kind, payload, r) ==
    /\ Charge(k, kind, payload)
    /\ conv' = [conv EXCEPT ![k] = IF r.error = "none" THEN r.state ELSE @]
    /\ user_data' = [user_data EXCEPT ![k[2]] = r.ud]
    /\ daily_checklist' = r.rows
    /\ out' = r.out
    /\ last' = [key |-> k, handler |-> name, error |-> r.error, from |-> conv[k],
                kind |-> kind, payload |-> payload]
    /\ hist' = [hist EXCEPT ![k] = HistAfter(k, kind, payload, r)]
    /\ r.error = "OperationalError" => faults < MaxFaults
    /\ faults' = IF r.error = "OperationalError" THEN faults + 1 ELSE faults
    /\ UNCHANGED last_meal_log

(***************************************************************************)
(* Actions: one per handler registration, and the updates nobody takes.    *)
(***************************************************************************)
\* /checklist [day]: the entry point, tried only when the key has no conversation
ChecklistStart(k, args, today) ==
    /\ conv[k] = END
    /\ LET r == checklist_start(user_data[k[2]], args, today) IN
        /\ conv' = [conv EXCEPT ![k] = r.state]
        /\ user_data' = [user_data EXCEPT ![k[2]] = r.ud]
        /\ out' = r.out
        /\ last' = [key |-> k, handler |-> "checklist_start", error |-> r.error,
                    from |-> END, kind |-> "/checklist", payload |-> args]
        /\ hist' = [hist EXCEPT ![k] =
                      [day |-> IF Len(args) > 0 THEN args[1] ELSE today,
                       visited |-> {r.state}, detour_from |-> END, log_seen |-> None,
                       store_at_start |-> daily_checklist, refused |-> FALSE,
                       answers |-> << >>, upsert_failed |-> FALSE,
                       before_fault |-> [ud |-> << >>, rows |-> {}],
                       asked_training_text |-> FALSE, inputs |-> 0]]
        \* a checklist for another day than the reference run's is off script
        /\ LET c == IF r.ud["checklist_date"] = ReferenceDay THEN 0 ELSE 1 IN
              offscript + c <= MaxOffScript /\ offscript' = offscript + c
    /\ faults' = 0
    /\ UNCHANGED <<daily_checklist, last_meal_log>>

\* /cancel: the fallback, tried in every state of a conversation
Cancel(k) ==
    /\ conv[k] # END
    /\ LET r == cancel(user_data[k[2]]) IN
        /\ conv' = [conv EXCEPT ![k] = r.state]
        /\ user_data' = [user_data EXCEPT ![k[2]] = r.ud]
        /\ out' = r.out
        /\ daily_checklist' = r.rows
        /\ last' = [key |-> k, handler |-> "cancel", error |-> r.error,
                    from |-> conv[k], kind |-> "/cancel", payload |-> << >>]
    /\ UNCHANGED <<last_meal_log, hist, offscript, faults>>

ElectronicsOff(k, data) ==
    /\ conv[k] = ELECTRONICS_OFF
    /\ Handled(k, "electronics_off", "callback", data, electronics_off(user_data[k[2]], data))
NasalRinse(k, data) ==
    /\ conv[k] = NASAL_RINSE
    /\ Handled(k, "nasal_rinse", "callback", data, nasal_rinse(user_data[k[2]], data))
NasalStrips(k, data) ==
    /\ conv[k] = NASAL_STRIPS
    /\ Handled(k, "nasal_strips", "callback", data, nasal_strips(user_data[k[2]], data))
MouthTaping(k, data) ==
    /\ conv[k] = MOUTH_TAPING
    /\ Handled(k, "mouth_taping", "callback", data, mouth_taping(user_data[k[2]], data))
Sauna(k, data) ==
    /\ conv[k] = SAUNA
    /\ Handled(k, "sauna", "callback", data, sauna(user_data[k[2]], data))
DiaphragmWork(k, data) ==
    /\ conv[k] = DIAPHRAGM_WORK
    /\ Handled(k, "diaphragm_work", "callback", data, diaphragm_work(user_data[k[2]], data))
HeavyScreen(k, data) ==
    /\ conv[k] = HEAVY_SCREEN
    /\ Handled(k, "heavy_screen", "callback", data, heavy_screen(user_data[k[2]], data))
WaitingOtherText(k, text) ==
    /\ conv[k] = WAITING_OTHER_TEXT
    /\ Handled(k, "waiting_other_text", "text", text, waiting_other_text(user_data[k[2]], text))
Training(k, data) ==
    /\ conv[k] = TRAINING
    /\ Handled(k, "training", "callback", data, training(user_data[k[2]], data))
TrainingText(k, text) ==
    /\ conv[k] = TRAINING
    /\ Handled(k, "training_text", "text", text, training_text(user_data[k[2]], text))
LastMealTimeButton(k, data) ==
    /\ conv[k] = LAST_MEAL_TIME
    /\ Handled(k, "last_meal_time", "callback", data,
               last_meal_time(user_data[k[2]], "callback", data))
LastMealTimeText(k, text) ==
    /\ conv[k] = LAST_MEAL_TIME
    /\ Handled(k, "last_meal_time", "text", text, last_meal_time(user_data[k[2]], "text", text))
CaffeineCutoffButton(k, data) ==
    /\ conv[k] = CAFFEINE_CUTOFF
    /\ Handled(k, "caffeine_cutoff", "callback", data,
               caffeine_cutoff(user_data[k[2]], "callback", data))
CaffeineCutoffText(k, text) ==
    /\ conv[k] = CAFFEINE_CUTOFF
    /\ Handled(k, "caffeine_cutoff", "text", text,
               caffeine_cutoff(user_data[k[2]], "text", text))
Hydration(k, data) ==
    /\ conv[k] = HYDRATION
    /\ Handled(k, "hydration", "callback", data, hydration(user_data[k[2]], data))
SupplementsBtn(k, data) ==
    /\ conv[k] = SUPPLEMENTS
    /\ Handled(k, "supplements_btn", "callback", data, supplements_btn(user_data[k[2]], data))
SupplementsText(k, text) ==
    /\ conv[k] = SUPPLEMENTS
    /\ Handled(k, "supplements_text", "text", text, supplements_text(user_data[k[2]], text))
Meditation(k, data, upsert_ok) ==
    /\ conv[k] = MEDITATION
    /\ Handled(k, "meditation", "callback", data,
               meditation(user_data[k[2]], data, upsert_ok))
MeditationMinutes(k, text, upsert_ok) ==
    /\ conv[k] = MEDITATION_MINUTES
    /\ Handled(k, "meditation_minutes", "text", text,
               meditation_minutes(user_data[k[2]], text, upsert_ok))

\* 'l' or 'L' that the conversation does not take: the shortcut of main.py
LastMealHandler(k, text, now_day, now_time, save_ok) ==
    /\ MatchesL(text)
    /\ conv[k] \notin TextStates
    /\ Charge(k, "text", text)
    /\ LET r == last_meal_handler(last_meal_log, now_day, now_time, save_ok) IN
          /\ last_meal_log' = r.rows
          /\ out' = r.out
          /\ last' = [key |-> k, handler |-> "last_meal_handler", error |-> r.error,
                      from |-> conv[k], kind |-> "text", payload |-> text]
    /\ UNCHANGED <<conv, user_data, daily_checklist, hist, faults>>

\* An update no handler takes: a button tapped where the state has no
\* CallbackQueryHandler, text where it has no MessageHandler, /checklist
\* inside a conversation, /cancel outside one.
Unhandled(k, kind, payload) ==
    /\ CASE kind = "callback" -> conv[k] \notin CallbackStates
         [] kind = "text" -> conv[k] \notin TextStates /\ ~MatchesL(payload)
         [] kind = "/checklist" -> conv[k] # END
         [] kind = "/cancel" -> conv[k] = END
    /\ Charge(k, kind, payload)
    /\ out' = << >>
    /\ last' = [key |-> k, handler |-> "none", error |-> "none", from |-> conv[k],
                kind |-> kind, payload |-> << >>]
    /\ UNCHANGED <<conv, user_data, daily_checklist, last_meal_log, hist, faults>>

Init ==
    /\ conv = [k \in Keys |-> END]
    /\ user_data = [u \in Users |-> EmptyDict]
    /\ daily_checklist = {}
    /\ last_meal_log = {}
    /\ out = << >>
    /\ last = [key |-> <<"c1", "u1">>, handler |-> "none", error |-> "none", from |-> END,
               kind |-> "none", payload |-> << >>]
    /\ hist = [k \in Keys |-> NoHist]
    /\ offscript = 0
    /\ faults = 0
    /\ foreign = 0
    /\ oura_data = {}
    /\ frame = NoFrame
    /\ transcripts = << >>

Update(k) ==
    \/ \E args \in {<< >>} \cup {<<d>> : d \in Days}, today \in Days :
          ChecklistStart(k, args, today)
    \/ Cancel(k)
    \/ \E data \in Tokens : ElectronicsOff(k, data)
    \/ \E data \in Tokens : NasalRinse(k, data)
    \/ \E data \in Tokens : NasalStrips(k, data)
    \/ \E data \in Tokens : MouthTaping(k, data)
    \/ \E data \in Tokens : Sauna(k, data)
    \/ \E data \in Tokens : DiaphragmWork(k, data)
    \/ \E data \in Tokens : HeavyScreen(k, data)
    \/ \E text \in VerbatimTexts : WaitingOtherText(k, text)
    \/ \E data \in Tokens : Training(k, data)
    \/ \E text \in VerbatimTexts : TrainingText(k, text)
    \/ \E data \in Tokens : LastMealTimeButton(k, data)
    \/ \E text \in VerbatimTexts : LastMealTimeText(k, text)
    \/ \E data \in Tokens : CaffeineCutoffButton(k, data)
    \/ \E text \in VerbatimTexts : CaffeineCutoffText(k, text)
    \/ \E data \in Tokens : Hydration(k, data)
    \/ \E data \in Tokens : SupplementsBtn(k, data)
    \/ \E text \in VerbatimTexts : SupplementsText(k, text)
    \/ \E data \in Tokens, upsert_ok \in BOOLEAN : Meditation(k, data, upsert_ok)
    \/ \E text \in NumberTexts \cup {TxtL}, upsert_ok \in BOOLEAN :
          MeditationMinutes(k, text, upsert_ok)
    \/ \E text \in Texts, d \in Days, t \in Times, save_ok \in BOOLEAN :
          LastMealHandler(k, text, d, t, save_ok)
    \/ \E data \in Tokens : Unhandled(k, "callback", data)
    \/ \E text \in Texts : Unhandled(k, "text", text)
    \/ Unhandled(k, "/checklist", << >>)
    \/ Unhandled(k, "/cancel", << >>)

Next == \E k \in SpecKeys : Update(k) /\ UNCHANGED <<foreign, elsewhere>>

Spec == Init /\ [][Next]_vars

(***************************************************************************)
(* The same conversation with more room to leave the plain run: the count  *)
(* of departures starts ExtraOffScript below zero, so that a run has       *)
(* MaxOffScript + ExtraOffScript of them: 'l' to log the meal and then a   *)
(* named training or Other, or 'l' and then Other at a question with 'l'   *)
(* again as the note.                                                      *)
(***************************************************************************)
ExtraOffScript == 1

InitDepartures ==
    /\ conv = [k \in Keys |-> END]
    /\ user_data = [u \in Users |-> EmptyDict]
    /\ daily_checklist = {}
    /\ last_meal_log = {}
    /\ out = << >>
    /\ last = [key |-> <<"c1", "u1">>, handler |-> "none", error |-> "none", from |-> END,
               kind |-> "none", payload |-> << >>]
    /\ hist = [k \in Keys |-> NoHist]
    /\ offscript = 0 - ExtraOffScript
    /\ faults = 0
    /\ foreign = 0
    /\ oura_data = {}
    /\ frame = NoFrame
    /\ transcripts = << >>

SpecDepartures == InitDepartures /\ [][Next]_vars

(***************************************************************************)
(* The same user talking to the bot in two chats: ConversationHandler      *)
(* keeps one conversation per (chat, user), the Application hands every    *)
(* handler the user_data of the update's user, and updates are handled one *)
(* at a time in any order.                                                 *)
(***************************************************************************)
NextMulti ==
    \E k \in Keys :
        /\ Update(k)
        /\ IF k \in SpecKeys THEN UNCHANGED foreign
           ELSE foreign < MaxForeign /\ foreign' = foreign + 1
        /\ UNCHANGED elsewhere

SpecMulti == Init /\ [][NextMulti]_vars

(***************************************************************************)
(* The same user with a second chat in which they only send the two        *)
(* commands: /checklist, at most MaxForeign times, and /cancel.            *)
(***************************************************************************)
SecondChat == <<"c2", "u1">>

NextCommands ==
    \/ \E k \in SpecKeys : Update(k) /\ UNCHANGED <<foreign, elsewhere>>
    \/ /\ \E today \in Days : ChecklistStart(SecondChat, << >>, today)
       /\ foreign < MaxForeign
       /\ foreign' = foreign + 1
       /\ UNCHANGED elsewhere
    \/ Cancel(SecondChat) /\ UNCHANGED <<foreign, elsewhere>>

SpecCommands == Init /\ [][NextCommands]_vars

(***************************************************************************)
(* The table read over a range of days (db.py get_checklists, called by    *)
(* analysis.py).  The table starts as any set of saved checklists with one *)
(* row per day; each row is the one the plain run with 10 minutes saves.   *)
(***************************************************************************)
SavedAnswer ==
    [c \in AnswerColumns |->
        CASE c = "training_type" -> None
          [] c = "last_meal_time" -> None
          [] c = "caffeine_cutoff" -> StrV(Txt2230)
          [] c = "hydration" -> StrV(TokPoor)
          [] c = "supplements" -> StrV(TxtMagnesium)
          [] c = "meditation" -> IntV(1)
          [] c = "meditation_minutes" -> IntV(10)
          [] OTHER -> IntV(0)]

InitList ==
    /\ conv = [k \in Keys |-> END]
    /\ user_data = [u \in Users |-> EmptyDict]
    /\ daily_checklist \in {{ChecklistRow(d, SavedAnswer) : d \in D} : D \in SUBSET ListDays}
    /\ last_meal_log = {}
    /\ out = << >>
    /\ last = [key |-> <<"c1", "u1">>, handler |-> "none", error |-> "none", from |-> END,
               kind |-> "none", payload |-> << >>]
    /\ hist = [k \in Keys |-> NoHist]
    /\ offscript = 0
    /\ faults = 0
    /\ foreign = 0
    /\ oura_data = {}
    /\ frame = NoFrame
    /\ transcripts = << >>

\* out: the list the call returns
GetChecklists(start, end) ==
    /\ out' = get_checklists(daily_checklist, start, end)
    /\ last' = [key |-> <<"c1", "u1">>, handler |-> "get_checklists", error |-> "none",
                from |-> END, kind |-> "range", payload |-> <<start, end>>]
    /\ UNCHANGED <<conv, user_data, daily_checklist, last_meal_log, hist, offscript, faults,
                   foreign, elsewhere>>

NextList == \E start \in ListDays, end \in ListDays : GetChecklists(start, end)

SpecList == InitList /\ [][NextList]_vars

(***************************************************************************)
(* oura.py: backfill.  Dates are datetime.date values, records of year,    *)
(* month and day; a day string is the sequence of the characters of its    *)
(* ISO form.  What the Oura API and the database do on one day is drawn    *)
(* per attempt: the day is stored, an endpoint answers with an error       *)
(* status (resp.raise_for_status), or save_oura_data raises.               *)
(***************************************************************************)
\* Number of consecutive days, from FirstDay on, that a range is drawn from.
MaxSpan == 4
FirstDay == [year |-> 2024, month |-> 2, day |-> 27]

IsLeap(y) == (y % 4 = 0 /\ y % 100 # 0) \/ y % 400 = 0
DaysInMonth(y, m) ==
    CASE m = 2 -> IF IsLeap(y) THEN 29 ELSE 28
      [] m \in {4, 6, 9, 11} -> 30
      [] OTHER -> 31

\* date.max
DateMax == [year |-> 9999, month |-> 12, day |-> 31]

\* what current + timedelta(days=1) gives on date.max: it raises
\* OverflowError (date value out of range)
OverflowError == [error |-> "OverflowError"]

\* current + timedelta(days=1)
AddDay(d) ==
    IF d = DateMax THEN OverflowError
    ELSE IF d.day < DaysInMonth(d.year, d.month) THEN [d EXCEPT !.day = @ + 1]
    ELSE IF d.month < 12 THEN [d EXCEPT !.month = @ + 1, !.day = 1]
    ELSE [year |-> d.year + 1, month |-> 1, day |-> 1]

\* date - timedelta(days=1)
SubDay(d) ==
    IF d.day > 1 THEN [d EXCEPT !.day = @ - 1]
    ELSE IF d.month > 1
         THEN [d EXCEPT !.month = @ - 1, !.day = DaysInMonth(d.year, d.month - 1)]
    ELSE [year |-> d.year - 1, month |-> 12, day |-> 31]

\* a <= b on dates
DateLe(a, b) ==
    \/ a.year < b.year
    \/ a.year = b.year /\ a.month < b.month
    \/ a.year = b.year /\ a.month = b.month /\ a.day <= b.day

TwoDigits(n) == <<DigitChars[((n \div 10) % 10) + 1], DigitChars[(n % 10) + 1]>>

\* date.isoformat(): YYYY-MM-DD
isoformat(d) ==
    TwoDigits(d.year \div 100) \o TwoDigits(d.year % 100) \o <<"-">>
        \o TwoDigits(d.month) \o <<"-">> \o TwoDigits(d.day)

\* date.fromisoformat() of a string of the form YYYY-MM-DD
fromisoformat(s) ==
    [year |-> DigitsValue(SubSeq(s, 1, 4)),
     month |-> DigitsValue(SubSeq(s, 6, 7)),
     day |-> DigitsValue(SubSeq(s, 9, 10))]

RECURSIVE DaysFrom(_, _)
DaysFrom(d, n) == IF n = 0 THEN << >> ELSE <<d>> \o DaysFrom(AddDay(d), n - 1)

\* the days a range is drawn from, in order
SpanDays == DaysFrom(FirstDay, MaxSpan)
SpanStrings == {isoformat(SpanDays[i]) : i \in 1..MaxSpan}

\* Number of the last days of the calendar, up to date.max, that a range is
\* drawn from as well.
MaxTopSpan == 3

RECURSIVE DaysBack(_, _)
DaysBack(d, n) == IF n = 0 THEN << >> ELSE DaysBack(SubDay(d), n - 1) \o <<d>>

TopDays == DaysBack(DateMax, MaxTopSpan)
TopStrings == {isoformat(TopDays[i]) : i \in 1..MaxTopSpan}

\* the ranges a call is made with: both ends in the span, or both among the
\* last days
Ranges == (SpanStrings \X SpanStrings) \cup (TopStrings \X TopStrings)

\* the days that are today in a run: the leap day and the day after
Todays == {SpanDays[3], SpanDays[4]}

Outcomes == {"stored", "HTTPStatusError", "OperationalError"}

\* INSERT OR REPLACE INTO oura_data
save_oura_data(rows, day) == {r \in rows : r.date # day} \cup {[date |-> day]}

\* fetch_oura_day, then save_oura_data: the error raised, if any, and the table
fetch_and_store(rows, day, outcome) ==
    IF outcome = "stored" THEN [error |-> "none", rows |-> save_oura_data(rows, day)]
    ELSE [error |-> outcome, rows |-> rows]

\* current += timedelta(days=1) at the end of a pass: the next day, or, on
\* date.max, the OverflowError that leaves backfill with no count returned
NextCurrent(f, rows) ==
    LET next == AddDay(f.current) IN
    IF next = OverflowError
    THEN [f EXCEPT !.pc = "raised", !.error = "OverflowError", !.table_at_return = rows]
    ELSE [f EXCEPT !.current = next]

\* Variant of backfill_body: the first day that fails ends the loop.
backfill_body_stops_on_error(f, rows, outcome) ==
    LET day_str == isoformat(f.current)
        r == fetch_and_store(rows, day_str, outcome)
        f1 == [f EXCEPT
                 !.count = IF r.error = "none" THEN @ + 1 ELSE @,
                 !.attempted = Append(@, day_str),
                 !.outcomes = Append(@, outcome)]
    IN  [frame |-> IF r.error = "none" \/ f.end_date = DateMax
                   THEN NextCurrent(f1, r.rows)
                   ELSE [f1 EXCEPT !.current = AddDay(f.end_date)],
         rows |-> r.rows]

\* One pass of the while loop of backfill: the locals after it and the table.
\* attempted, outcomes: the days tried so far and what became of each.
backfill_body(f, rows, outcome) ==
    LET day_str == isoformat(f.current)
        r == fetch_and_store(rows, day_str, outcome)
        f1 == [f EXCEPT
                 !.count = IF r.error = "none" THEN @ + 1 ELSE @,
                 !.attempted = Append(@, day_str),
                 !.outcomes = Append(@, outcome)]
    IN  [frame |-> NextCurrent(f1, r.rows), rows |-> r.rows]

\* backfill(token, db_path, start, end) is called
BackfillCall(start, end) ==
    /\ frame.pc = "idle"
    /\ frame' = [pc |-> "loop", start |-> start, end |-> end,
                 start_date |-> fromisoformat(start), end_date |-> fromisoformat(end),
                 current |-> fromisoformat(start), count |-> 0,
                 attempted |-> << >>, outcomes |-> << >>, table_at_call |-> oura_data,
                 table_at_return |-> {}, error |-> "none"]
    /\ UNCHANGED <<conv, user_data, daily_checklist, last_meal_log, out, last, hist,
                   offscript, faults, foreign, oura_data, transcripts>>

\* while current <= end_date: one pass
BackfillPass(outcome) ==
    /\ frame.pc = "loop"
    /\ DateLe(frame.current, frame.end_date)
    /\ LET r == backfill_body(frame, oura_data, outcome) IN
          /\ frame' = r.frame
          /\ oura_data' = r.rows
    /\ UNCHANGED <<conv, user_data, daily_checklist, last_meal_log, out, last, hist,
                   offscript, faults, foreign, transcripts>>

\* return count
BackfillReturn ==
    /\ frame.pc = "loop"
    /\ ~DateLe(frame.current, frame.end_date)
    /\ frame' = [frame EXCEPT !.pc = "returned", !.table_at_return = oura_data]
    /\ UNCHANGED <<conv, user_data, daily_checklist, last_meal_log, out, last, hist,
                   offscript, faults, foreign, oura_data, transcripts>>

\* main.py daily_oura_job: yesterday's data is fetched and stored, and the
\* chat that sent /start, if there is one, is told how it went
daily_oura_job(rows, today, has_chat_id, outcome) ==
    LET yesterday == isoformat(SubDay(today))
        r == fetch_and_store(rows, yesterday, outcome)
        text == IF r.error = "none" THEN Lit("Oura daily pull") ELSE Lit("Oura daily pull failed")
    IN  [rows |-> r.rows,
         out |-> IF has_chat_id THEN <<Msg("send", text, Q_NONE, NoKb)>> ELSE << >>,
         error |-> r.error]

\* The job queue runs daily_oura_job.  It runs on the event loop, which a
\* call of backfill, plain synchronous code inside a handler, holds until
\* it returns.  The job is no update: last stays.
DailyOuraJob(today, has_chat_id, outcome) ==
    /\ frame.pc # "loop"
    /\ LET r == daily_oura_job(oura_data, today, has_chat_id, outcome) IN
          /\ oura_data' = r.rows
          /\ out' = r.out
    /\ UNCHANGED <<conv, user_data, daily_checklist, last_meal_log, last, hist, offscript,
                   faults, foreign, frame, transcripts>>

\* the table holds nothing or the row of one day of the span
InitBackfill ==
    /\ conv = [k \in Keys |-> END]
    /\ user_data = [u \in Users |-> EmptyDict]
    /\ daily_checklist = {}
    /\ last_meal_log = {}
    /\ out = << >>
    /\ last = [key |-> <<"c1", "u1">>, handler |-> "none", error |-> "none", from |-> END,
               kind |-> "none", payload |-> << >>]
    /\ hist = [k \in Keys |-> NoHist]
    /\ offscript = 0
    /\ faults = 0
    /\ foreign = 0
    /\ oura_data \in {{}} \cup {{[date |-> d]} : d \in SpanStrings}
    /\ frame = NoFrame
    /\ transcripts = << >>

NextBackfill ==
    \/ \E range \in Ranges : BackfillCall(range[1], range[2])
    \/ \E outcome \in Outcomes : BackfillPass(outcome)
    \/ BackfillReturn
    \/ \E today \in Todays, has_chat_id \in BOOLEAN, outcome \in Outcomes :
          DailyOuraJob(today, has_chat_id, outcome)

\* a call that was made runs on: the loop is plain sequential code
SpecBackfill ==
    /\ InitBackfill
    /\ [][NextBackfill]_vars
    /\ WF_vars((\E outcome \in Outcomes : BackfillPass(outcome)) \/ BackfillReturn)

(***************************************************************************)
(* handlers.py: /date, /yesterday and voice notes.  today: date.today();   *)
(* what becomes of a voice note is drawn per note: it is stored, Telegram  *)
(* fails to hand out the file, the transcription fails, or save_transcript *)
(* raises.  The handler catches every one of these and replies.            *)
(***************************************************************************)
\* Number of voice notes stored in a run.
MaxNotes == 2

VoiceOutcomes == {"stored", "TelegramError", "APIError", "OperationalError"}

\* INSERT INTO transcripts (date, raw_text, ...)
save_transcript(rows, day, raw_text) == Append(rows, [date |-> day, raw_text |-> raw_text])

\* /date [day]
date_handler(ud, args) ==
    IF Len(args) > 0
    THEN [ud |-> Put(ud, "next_date", StrV(args[1])),
          out |-> <<Msg("reply", StrV(args[1]), Q_NONE, NoKb)>>]
    ELSE [ud |-> ud, out |-> <<Msg("reply", Lit("Usage: /date YYYY-MM-DD"), Q_NONE, NoKb)>>]

\* /yesterday
yesterday_handler(ud, today) ==
    LET day == isoformat(SubDay(today))
    IN  [ud |-> Put(ud, "next_date", StrV(day)),
         out |-> <<Msg("reply", StrV(day), Q_NONE, NoKb)>>]

\* a voice note: download and transcription, then the pin is popped, then
\* the note is saved
voice_handler(ud, rows, today, text, outcome) ==
    LET first == Msg("reply", Lit("Transcribing..."), Q_NONE, NoKb)
        failed == Msg("reply", Lit("Error transcribing"), Q_NONE, NoKb)
    IN  IF outcome \in {"TelegramError", "APIError"}
        THEN [ud |-> ud, rows |-> rows, out |-> <<first, failed>>]
        ELSE
        LET pinned == Get(ud, "next_date")
            day == IF Truthy(pinned) THEN pinned.s ELSE isoformat(today)
            ud1 == Pop(ud, "next_date")
        IN  IF outcome = "OperationalError"
            THEN [ud |-> ud1, rows |-> rows, out |-> <<first, failed>>]
            ELSE [ud |-> ud1, rows |-> save_transcript(rows, day, text),
                  out |-> <<first, Msg("reply", StrV(day), Q_NONE, NoKb)>>]

VoiceUser == "u1"
VoiceKey == <<"c1", VoiceUser>>

DateHandler(args) ==
    /\ LET r == date_handler(user_data[VoiceUser], args) IN
          /\ user_data' = [user_data EXCEPT ![VoiceUser] = r.ud]
          /\ out' = r.out
    /\ last' = [key |-> VoiceKey, handler |-> "date_handler", error |-> "none",
                from |-> END, kind |-> "/date", payload |-> args]
    /\ UNCHANGED <<conv, daily_checklist, last_meal_log, hist, offscript, faults, foreign,
                   oura_data, frame, transcripts>>

YesterdayHandler(today) ==
    /\ LET r == yesterday_handler(user_data[VoiceUser], today) IN
          /\ user_data' = [user_data EXCEPT ![VoiceUser] = r.ud]
          /\ out' = r.out
    /\ last' = [key |-> VoiceKey, handler |-> "yesterday_handler", error |-> "none",
                from |-> END, kind |-> "/yesterday", payload |-> isoformat(today)]
    /\ UNCHANGED <<conv, daily_checklist, last_meal_log, hist, offscript, faults, foreign,
                   oura_data, frame, transcripts>>

\* last.error: what went wrong inside the handler, which the handler caught
VoiceHandler(today, text, outcome) ==
    /\ outcome = "stored" => Len(transcripts) < MaxNotes
    /\ LET r == voice_handler(user_data[VoiceUser], transcripts, today, text, outcome) IN
          /\ user_data' = [user_data EXCEPT ![VoiceUser] = r.ud]
          /\ transcripts' = r.rows
          /\ out' = r.out
    /\ last' = [key |-> VoiceKey, handler |-> "voice_handler",
                error |-> IF outcome = "stored" THEN "none" ELSE outcome,
                from |-> END, kind |-> "voice", payload |-> isoformat(today)]
    /\ UNCHANGED <<conv, daily_checklist, last_meal_log, hist, offscript, faults, foreign,
                   oura_data, frame>>

NextVoice ==
    \/ \E args \in {<< >>, <<isoformat(FirstDay)>>} : DateHandler(args)
    \/ \E today \in Todays : YesterdayHandler(today)
    \/ \E today \in Todays, outcome \in VoiceOutcomes : VoiceHandler(today, TxtAbc, outcome)

SpecVoice == Init /\ [][NextVoice]_vars

(***************************************************************************)
(* handlers.py: _split_message, which cuts the analysis into the messages  *)
(* analyze_handler sends.  Texts are sequences of characters.              *)
(***************************************************************************)
\* Longest text split, and largest max_len tried.
MaxTextLen == 5
MaxChunkLen == 3

NL == "\n"
SplitChars == {"a", NL}

\* text.rfind(sub, 0, end): the highest 0-based index below which sub ends
\* by end, -1 when there is none
rfind(text, sub, end) ==
    LET stop == IF end < Len(text) THEN end ELSE Len(text)
        hits == {i \in 0..(stop - Len(sub)) : SubSeq(text, i + 1, i + Len(sub)) = sub}
    IN  IF hits = {} THEN -1 ELSE CHOOSE i \in hits : \A j \in hits : j <= i

\* text.lstrip("\n")
RECURSIVE LStripNewlines(_)
LStripNewlines(text) ==
    IF Len(text) > 0 /\ Head(text) = NL THEN LStripNewlines(Tail(text)) ELSE text

\* the while loop of _split_message, from the text that is left
RECURSIVE split_loop(_, _, _)
split_loop(text, max_len, chunks) ==
    IF Len(text) = 0 THEN chunks
    ELSE IF Len(text) <= max_len THEN Append(chunks, text)
    ELSE
    LET para == rfind(text, <<NL, NL>>, max_len)
        line == rfind(text, <<NL>>, max_len)
        split_at == IF para # -1 THEN para ELSE IF line # -1 THEN line ELSE max_len
    IN  split_loop(LStripNewlines(SubSeq(text, split_at + 1, Len(text))), max_len,
                   Append(chunks, SubSeq(text, 1, split_at)))

split_message(text, max_len) ==
    IF Len(text) <= max_len THEN <<text>> ELSE split_loop(text, max_len, << >>)

SplitTexts == UNION {[1..n -> SplitChars] : n \in 1..MaxTextLen}

\* a text and a max_len are at hand; last.payload holds them
InitSplit ==
    /\ conv = [k \in Keys |-> END]
    /\ user_data = [u \in Users |-> EmptyDict]
    /\ daily_checklist = {}
    /\ last_meal_log = {}
    /\ out = << >>
    /\ \E text \in SplitTexts, max_len \in 1..MaxChunkLen :
          last = [key |-> <<"c1", "u1">>, handler |-> "none", error |-> "none",
                  from |-> END, kind |-> "text", payload |-> <<text, max_len>>]
    /\ hist = [k \in Keys |-> NoHist]
    /\ offscript = 0
    /\ faults = 0
    /\ foreign = 0
    /\ oura_data = {}
    /\ frame = NoFrame
    /\ transcripts = << >>

\* out: the chunks returned
SplitMessage ==
    /\ last.handler = "none"
    /\ out' = split_message(last.payload[1], last.payload[2])
    /\ last' = [last EXCEPT !.handler = "split_message"]
    /\ UNCHANGED <<conv, user_data, daily_checklist, last_meal_log, hist, offscript, faults,
                   foreign, oura_data, frame, transcripts>>

NextSplit == SplitMessage

SpecSplit == InitSplit /\ [][NextSplit]_vars

(***************************************************************************)
(* Properties.                                                             *)
(***************************************************************************)
BooleanFields ==
    {"electronics_off", "nasal_rinse", "nasal_strips", "mouth_taping", "sauna",
     "diaphragm_work", "heavy_screen_day"}

\* the field a boolean question state asks for
FieldOf(st) ==
    CASE st = ELECTRONICS_OFF -> "electronics_off"
      [] st = NASAL_RINSE -> "nasal_rinse"
      [] st = NASAL_STRIPS -> "nasal_strips"
      [] st = MOUTH_TAPING -> "mouth_taping"
      [] st = SAUNA -> "sauna"
      [] st = DIAPHRAGM_WORK -> "diaphragm_work"
      [] st = HEAVY_SCREEN -> "heavy_screen_day"

\* what the handler of boolean question st yields for a direct answer
DirectAnswer(st, ud, data) ==
    CASE st = ELECTRONICS_OFF -> electronics_off(ud, data)
      [] st = NASAL_RINSE -> nasal_rinse(ud, data)
      [] st = NASAL_STRIPS -> nasal_strips(ud, data)
      [] st = MOUTH_TAPING -> mouth_taping(ud, data)
      [] st = SAUNA -> sauna(ud, data)
      [] st = DIAPHRAGM_WORK -> diaphragm_work(ud, data)
      [] st = HEAVY_SCREEN -> heavy_screen(ud, data)

\* the session of key k has just ended by the save step
JustSaved(k) ==
    /\ last.key = k
    /\ last.handler \in {"meditation", "meditation_minutes"}
    /\ last.error = "none"
    /\ conv[k] = END

\* the keys of the notes a saved row holds
RowNotes(row) == IF row["other_notes"] = None THEN {} ELSE DOMAIN row["other_notes"].d

\* the pending answer of key k's user
Pending(k) == user_data[k[2]]["checklist"]

\* C1: Other at a boolean question followed by free text t leaves the field
\* None and other_notes[field] = t, and resumes in the state, with the
\* question and with the keyboard that a direct Yes or No would have produced.
C1_OtherThenText ==
    \A k \in Keys :
        (last.key = k /\ last.handler = "waiting_other_text" /\ last.error = "none") =>
            LET q == hist[k].detour_from
                yes == DirectAnswer(q, user_data[k[2]], TokYes)
                no == DirectAnswer(q, user_data[k[2]], TokNo)
            IN  /\ q \in BooleanStates
                /\ Pending(k)[FieldOf(q)] = None
                /\ Pending(k)["other_notes"].d[FieldOf(q)] = last.payload
                /\ \A d \in {yes, no} :
                      /\ d.error = "none"
                      /\ conv[k] = d.state
                      /\ out[Len(out)].q = d.out[Len(d.out)].q
                      /\ out[Len(out)].kb = d.out[Len(d.out)].kb

\* Other then a note at the last boolean question, resumed at Training with
\* the training keyboard
C1_Witness ==
    /\ last.handler = "waiting_other_text"
    /\ hist[last.key].detour_from = HEAVY_SCREEN
    /\ conv[last.key] = TRAINING
    /\ out[1].kb = TRAINING_KB
    /\ Pending(last.key)["other_notes"].d["heavy_screen_day"] = TxtAbc

\* C2: in every saved row each boolean field is either 0/1 without a note or
\* None with a note under its key.
C2_NoteIffNull ==
    \A row \in daily_checklist :
        \A f \in BooleanFields \cup {"meditation"} :
            \/ row[f] \in {IntV(0), IntV(1)} /\ f \notin RowNotes(row)
            \/ row[f] = None /\ f \in RowNotes(row)

C2_Witness ==
    \E row \in daily_checklist :
        /\ row["sauna"] = None /\ "sauna" \in RowNotes(row)
        /\ row["nasal_rinse"] = IntV(0) /\ "nasal_rinse" \notin RowNotes(row)

\* C3 (as claimed): no update makes a handler raise.
C3_NeverRaises == last.error = "none"

\* C4 (as claimed): an input outside the state's accepted set changes neither
\* the state nor the pending answer.
C4_RejectedInputChangesNothing ==
    [][(/\ last'.from \in QuestionStates
        /\ last'.kind \in {"callback", "text"}
        /\ last'.handler # "none"
        /\ ~Accepted(last'.from, last'.kind, last'.payload))
       => (conv' = conv /\ user_data' = user_data)]_vars

\* C5: when the side log holds v for the session's day at the moment Training
\* is resolved, last_meal_time becomes v, the next state is CAFFEINE_CUTOFF,
\* LAST_MEAL_TIME is never visited and the saved row has last_meal_time = v.
C5_SkipAhead ==
    \A k \in Keys :
        hist[k].log_seen # None =>
            /\ LAST_MEAL_TIME \notin hist[k].visited
            /\ CAFFEINE_CUTOFF \in hist[k].visited
            /\ (last.key = k /\ last.from = TRAINING /\ conv[k] # TRAINING
                    /\ last.handler \in {"training", "training_text"})
                  => conv[k] = CAFFEINE_CUTOFF
            /\ conv[k] # END
                  => Pending(k)["last_meal_time"] = hist[k].log_seen
            /\ JustSaved(k) =>
                  \E row \in daily_checklist :
                      row["date"] = hist[k].day /\ row["last_meal_time"] = hist[k].log_seen

\* a session whose Training was resolved by Other and typed text with the
\* meal logged has been saved: the meal question was never asked and the row
\* has the logged time
C5_Witness ==
    \E k \in Keys :
        /\ JustSaved(k)
        /\ hist[k].log_seen # None
        /\ hist[k].asked_training_text
        /\ hist[k].answers[TRAINING] = <<"text", TxtAbc>>
        /\ LAST_MEAL_TIME \notin hist[k].visited
        /\ \E row \in daily_checklist :
              /\ row["date"] = hist[k].day
              /\ row["training_type"] = StrV(TxtAbc)
              /\ row["last_meal_time"] = hist[k].log_seen

\* C6: No at Meditation stores meditation_minutes = None and saves at once,
\* MEDITATION_MINUTES is not visited; so a saved row has minutes only with
\* meditation = 1.
C6_NoMeditationNoMinutes ==
    /\ \A k \in Keys :
          (last.key = k /\ last.handler = "meditation" /\ last.payload = TokNo
              /\ last.error = "none") =>
                /\ conv[k] = END
                /\ MEDITATION_MINUTES \notin hist[k].visited
                /\ Pending(k)["meditation_minutes"] = None
                /\ \E row \in daily_checklist :
                      /\ row["date"] = hist[k].day
                      /\ row["meditation"] = IntV(0)
                      /\ row["meditation_minutes"] = None
    /\ \A row \in daily_checklist :
          row["meditation_minutes"] # None => row["meditation"] = IntV(1)

C6_Witness ==
    /\ last.handler = "meditation" /\ last.payload = TokNo /\ conv[last.key] = END
    /\ \E row \in daily_checklist : row["meditation"] = IntV(0)

\* C7: at MEDITATION_MINUTES text that is no integer changes neither the
\* state, nor the pending answer, nor the table, however often it is sent;
\* the text "15" stores meditation_minutes = 15, saves it and ends the
\* conversation.
C7_ValidationLoop ==
    [][\A k \in Keys :
        (last'.key = k /\ last'.handler = "meditation_minutes" /\ conv[k] = MEDITATION_MINUTES)
        => /\ ~PyInt(last'.payload).ok =>
                /\ conv' = conv
                /\ user_data' = user_data
                /\ daily_checklist' = daily_checklist
           /\ (last'.payload = Txt15 /\ last'.error = "none") =>
                /\ conv'[k] = END
                /\ user_data'[k[2]]["checklist"] =
                      Put(user_data[k[2]]["checklist"], "meditation_minutes", IntV(15))
                /\ \E row \in daily_checklist' :
                      row["date"] = hist[k].day /\ row["meditation_minutes"] = IntV(15)]_vars

\* "15" was accepted and saved in a session that had a text refused before
C7_Witness ==
    /\ last.handler = "meditation_minutes" /\ last.payload = Txt15
    /\ conv[last.key] = END
    /\ hist[last.key].refused
    /\ \E row \in daily_checklist :
          /\ row["meditation_minutes"] = IntV(15)
          /\ row["caffeine_cutoff"] = StrV(Txt2230)

\* C8 (as claimed): every saved row has meditation_minutes None or >= 1.
C8_MinutesPositive ==
    \A row \in daily_checklist :
        row["meditation_minutes"] = None \/ row["meditation_minutes"].i >= 1

\* C9: the table holds at most one row per day, and after a save the row of
\* the day equals, column for column, the answer just saved.
C9_ReplaceNotMerge ==
    /\ \A r1, r2 \in daily_checklist : r1["date"] = r2["date"] => r1 = r2
    /\ \A k \in Keys :
          JustSaved(k) =>
              \E row \in daily_checklist :
                  /\ row["date"] = hist[k].day
                  /\ \A c \in AnswerColumns : row[c] = Get(Pending(k), c)
                  /\ RowNotes(row) =
                        (IF "other_notes" \in DOMAIN Pending(k)
                         THEN DOMAIN Pending(k)["other_notes"].d ELSE {})
                  /\ \A f \in RowNotes(row) :
                        row["other_notes"].d[f] = Pending(k)["other_notes"].d[f]

\* a day's row with a note has been replaced by a save without any note
C9_Witness ==
    \E k \in Keys :
        /\ JustSaved(k)
        /\ \E old \in hist[k].store_at_start :
              /\ old["date"] = hist[k].day
              /\ RowNotes(old) = {"sauna"}
              /\ old["sauna"] = None
        /\ \E row \in daily_checklist :
              /\ row["date"] = hist[k].day
              /\ RowNotes(row) = {}
              /\ row["sauna"] = IntV(0)

\* C10: /cancel is taken in every state of a conversation, ends it, and
\* leaves the table as it was when the session started.
C10_CancelWritesNothing ==
    \A k \in SpecKeys :
        /\ conv[k] # END => ENABLED Cancel(k)
        /\ (last.key = k /\ last.handler = "cancel") =>
              /\ conv[k] = END
              /\ daily_checklist = hist[k].store_at_start

\* cancelled while the note was awaited, with answers given and no row for the day
C10_Witness ==
    /\ last.handler = "cancel"
    /\ last.from = WAITING_OTHER_TEXT
    /\ hist[last.key].detour_from = SAUNA
    /\ \A row \in daily_checklist : row["date"] # hist[last.key].day

\* the column a question state fills
ColumnOf(st) ==
    CASE st \in BooleanStates -> FieldOf(st)
      [] st = TRAINING -> "training_type"
      [] st = LAST_MEAL_TIME -> "last_meal_time"
      [] st = CAFFEINE_CUTOFF -> "caffeine_cutoff"
      [] st = HYDRATION -> "hydration"
      [] st = SUPPLEMENTS -> "supplements"
      [] st = MEDITATION -> "meditation"
      [] st = MEDITATION_MINUTES -> "meditation_minutes"

\* the value the record is to hold for answer a = <<kind, payload>> at state st
ExpectedValue(st, a) ==
    CASE st \in BooleanStates \cup {MEDITATION} ->
            IF a[2] = TokYes THEN IntV(1) ELSE IntV(0)
      [] st = TRAINING ->
            IF a = <<"callback", TokNone>> THEN None ELSE StrV(a[2])
      [] st \in {LAST_MEAL_TIME, CAFFEINE_CUTOFF} ->
            IF a[1] = "callback" THEN None ELSE StrV(a[2])
      [] st = HYDRATION -> StrV(a[2])
      [] st = SUPPLEMENTS -> IF a[1] = "callback" THEN None ELSE StrV(a[2])
      [] st = MEDITATION_MINUTES -> IntV(PyInt(a[2]).v)

\* the questions every complete run answers
AlwaysAsked == (BooleanStates \cup {TRAINING}) \cup CAFFEINE_CUTOFF..MEDITATION

\* the session of key k took only inputs its states accept, Other never among them
PlainRun(k) ==
    LET a == hist[k].answers IN
    /\ WAITING_OTHER_TEXT \notin DOMAIN a
    /\ \A st \in DOMAIN a :
          /\ a[st] # Unaccepted
          /\ a[st] # <<"callback", TokOther>>

\* the answers of the end-to-end scenario of the spec's section 8
ScenarioAnswers ==
    [st \in 0..13 |->
        CASE st \in BooleanStates -> <<"callback", TokNo>>
          [] st = TRAINING -> <<"callback", TokNone>>
          [] st = LAST_MEAL_TIME -> <<"callback", TokSkip>>
          [] st = CAFFEINE_CUTOFF -> <<"text", Txt2230>>
          [] st = HYDRATION -> <<"callback", TokPoor>>
          [] st = SUPPLEMENTS -> <<"text", TxtMagnesium>>
          [] st = MEDITATION -> <<"callback", TokYes>>
          [] st = MEDITATION_MINUTES -> <<"text", Txt10>>]

\* the record the spec's section 8 expects of that scenario
ScenarioRecord ==
    [c \in RowColumns |->
        CASE c = "date" -> ReferenceDay
          [] c \in BooleanFields -> IntV(0)
          [] c = "training_type" -> None
          [] c = "last_meal_time" -> None
          [] c = "caffeine_cutoff" -> StrV(Txt2230)
          [] c = "hydration" -> StrV(TokPoor)
          [] c = "supplements" -> StrV(TxtMagnesium)
          [] c = "meditation" -> IntV(1)
          [] c = "meditation_minutes" -> IntV(10)
          [] c = "other_notes" -> None]

\* C11: a complete run that took only accepted inputs, Other never among
\* them, saves for its day the record of the answers given: 1/0 for Yes/No,
\* None for Training=None and for the skip button, typed text as typed,
\* good/poor, the minutes answered (None after No), no notes; LAST_MEAL_TIME
\* unasked leaves the logged time.  The spec's scenario yields its record.
C11_RecordEqualsAnswers ==
    \A k \in Keys :
        (JustSaved(k) /\ PlainRun(k)) =>
            LET a == hist[k].answers IN
            /\ AlwaysAsked \subseteq DOMAIN a
            /\ \E row \in daily_checklist :
                  /\ row["date"] = hist[k].day
                  /\ \A st \in DOMAIN a : row[ColumnOf(st)] = ExpectedValue(st, a[st])
                  /\ MEDITATION_MINUTES \notin DOMAIN a => row["meditation_minutes"] = None
                  /\ LAST_MEAL_TIME \notin DOMAIN a => row["last_meal_time"] = hist[k].log_seen
                  /\ row["other_notes"] = None
                  /\ (a = ScenarioAnswers /\ hist[k].day = ReferenceDay)
                        => row = ScenarioRecord

\* the spec's scenario has just been run to its save
C11_Witness ==
    \E k \in Keys :
        /\ JustSaved(k)
        /\ hist[k].answers = ScenarioAnswers
        /\ hist[k].day = ReferenceDay
        /\ ScenarioRecord \in daily_checklist

\* the session data held for key k: pending_answer, target_day, pending_override
SessionData(k) == user_data[k[2]]

\* C12 (as claimed): while two sessions are active in different chats, an
\* update of one of them leaves the other's session data as it was.
C12_SessionsIndependent ==
    [][\A k \in Keys :
        (conv[k] # END /\ last'.key # k /\ conv[last'.key] # END /\ last'.handler # "none")
            => SessionData(k)' = SessionData(k)]_vars

\* what key k's conversation yields when the last input is sent once more and
\* the upsert is carried out
Resubmit(k) ==
    IF conv[k] = MEDITATION
    THEN meditation(user_data[k[2]], last.payload, TRUE)
    ELSE meditation_minutes(user_data[k[2]], last.payload, TRUE)

\* C13: when the upsert of the save step fails (a handler of the conversation
\* raises OperationalError), the conversation stays in
\* the state that took the input (MEDITATION or MEDITATION_MINUTES), the table
\* is as it was, every answer collected before is still held, and sending
\* the same input again saves the whole answer and ends the conversation.
C13_SaveFailureResumable ==
    \A k \in Keys :
        (/\ last.key = k
         /\ last.error = "OperationalError"
         /\ last.handler # "last_meal_handler") =>
            LET before == hist[k].before_fault.ud["checklist"] IN
            /\ last.from \in {MEDITATION, MEDITATION_MINUTES}
            /\ conv[k] = last.from
            /\ daily_checklist = hist[k].before_fault.rows
            /\ HasChecklist(user_data[k[2]])
            /\ "checklist_date" \in DOMAIN user_data[k[2]]
            /\ \A f \in DOMAIN before \ {"meditation", "meditation_minutes"} :
                  /\ f \in DOMAIN Pending(k)
                  /\ Pending(k)[f] = before[f]
            /\ Resubmit(k).error = "none"
            /\ Resubmit(k).state = END
            /\ \E row \in Resubmit(k).rows :
                  /\ row["date"] = hist[k].day
                  /\ \A c \in AnswerColumns \ {"meditation", "meditation_minutes"} :
                        row[c] = Get(before, c)
                  /\ row["meditation"] # None

\* a session whose save failed once was saved by sending the minutes again,
\* with what was answered before the failure
C13_Witness ==
    \E k \in Keys :
        /\ JustSaved(k)
        /\ hist[k].upsert_failed
        /\ last.handler = "meditation_minutes"
        /\ \E row \in daily_checklist :
              /\ row["date"] = hist[k].day
              /\ row["meditation_minutes"] = IntV(15)
              /\ row["supplements"] = StrV(TxtMagnesium)

\* the last message sent is the summary of a saved checklist
SummarySent == Len(out) > 0 /\ "day" \in DOMAIN out[Len(out)].head

\* C14: a save and a cancel end the conversation, and while a key has no
\* conversation no button and no text sent to it reaches a checklist
\* handler, changes the table, the session data or the conversation.
C14_TerminalAbsorbing ==
    [][\A k \in Keys :
        last'.key = k =>
            /\ last'.handler = "cancel" => conv'[k] = END
            /\ (SummarySent' /\ last'.handler \in {"meditation", "meditation_minutes"})
                  => conv'[k] = END
            /\ (conv[k] = END /\ last'.kind \in {"callback", "text"}) =>
                  /\ last'.handler \in {"none", "last_meal_handler"}
                  /\ daily_checklist' = daily_checklist
                  /\ user_data' = user_data
                  /\ conv' = conv]_vars

\* a button was tapped after the session had been saved, and nothing took it
C14_Witness ==
    /\ last.from = END
    /\ last.kind = "callback"
    /\ last.handler = "none"
    /\ conv[last.key] = END
    /\ MEDITATION_MINUTES \in DOMAIN hist[last.key].answers
    /\ \E row \in daily_checklist : row["date"] = hist[last.key].day

SessionKeys == {"checklist", "checklist_date", "other_pending"}

\* C15 (as claimed): once a session has ended by save or by cancel, none of
\* pending_answer, target_day and pending_override is held for its user.
C15_SessionDataDiscarded ==
    \A k \in Keys :
        (last.key = k /\ conv[k] = END /\ (JustSaved(k) \/ last.handler = "cancel"))
            => DOMAIN user_data[k[2]] \cap SessionKeys = {}

\* C16 (as claimed): every message that asks the Meditation question offers
\* exactly Yes and No, Other tapped there is taken by no handler, and no
\* saved row has meditation NULL.
C16_MeditationYesNoOnly ==
    /\ \A i \in 1..Len(out) :
          out[i].q = Q_MEDITATION => out[i].kb = {TokYes, TokNo}
    /\ (last.from = MEDITATION /\ last.kind = "callback" /\ last.payload = TokOther)
          => last.handler = "none"
    /\ \A row \in daily_checklist : row["meditation"] # None

\* C17 (as claimed): every saved row has hydration "good" or "poor".
C17_HydrationGoodOrPoor ==
    \A row \in daily_checklist : row["hydration"] \in {StrV(TokGood), StrV(TokPoor)}

NamedTrainings == {TokStrength, TokCardio, TokZone2, TokSport}

\* C18: at TRAINING the button None stores training_type = None, a named
\* button stores its token, Other stores nothing and keeps the state, and a
\* typed text t stores training_type = t; none of them touches other_notes
\* or the pending slot or enters WAITING_OTHER_TEXT, and every one but Other
\* moves on to the meal or the caffeine question.
C18_TrainingStoresDirectly ==
    [][\A k \in Keys :
        (/\ last'.key = k
         /\ conv[k] = TRAINING
         /\ last'.handler \in {"training", "training_text"}
         /\ last'.error = "none"
         /\ Accepted(TRAINING, last'.kind, last'.payload)) =>
            LET p == last'.payload
                before == user_data[k[2]]
                after == user_data'[k[2]]
            IN  /\ conv'[k] # WAITING_OTHER_TEXT
                /\ Get(after, "other_pending") = Get(before, "other_pending")
                /\ Get(after["checklist"], "other_notes")
                      = Get(before["checklist"], "other_notes")
                /\ (last'.kind = "callback" /\ p = TokOther) =>
                      /\ conv'[k] = TRAINING
                      /\ after = before
                /\ ~(last'.kind = "callback" /\ p = TokOther) =>
                      /\ conv'[k] \in {LAST_MEAL_TIME, CAFFEINE_CUTOFF}
                      /\ after["checklist"]["training_type"] =
                            (IF last'.kind = "callback" /\ p = TokNone
                             THEN None ELSE StrV(p))]_vars

\* Other was tapped at Training, then "abc" was typed and stored as the type
C18_Witness ==
    \E k \in Keys :
        /\ last.key = k
        /\ last.handler = "training_text"
        /\ last.payload = TxtAbc
        /\ hist[k].asked_training_text
        /\ conv[k] = LAST_MEAL_TIME
        /\ Pending(k)["training_type"] = StrV(TxtAbc)
        /\ "other_notes" \notin DOMAIN Pending(k)

\* C19: at LAST_MEAL_TIME and at CAFFEINE_CUTOFF the skip button stores None
\* and a typed text is stored as typed, whatever its form; every input the
\* state's handler takes moves on to the next question, none asks again.
C19_TimesStoredUnchecked ==
    [][\A k \in Keys :
        (/\ last'.key = k
         /\ conv[k] \in {LAST_MEAL_TIME, CAFFEINE_CUTOFF}
         /\ last'.handler \in {"last_meal_time", "caffeine_cutoff"}
         /\ last'.error = "none") =>
            /\ conv'[k] = conv[k] + 1
            /\ \A i \in 1..Len(out') :
                  out'[i].q = (IF conv[k] = LAST_MEAL_TIME THEN Q_CAFFEINE ELSE Q_HYDRATION)
            /\ Accepted(conv[k], last'.kind, last'.payload) =>
                  user_data'[k[2]]["checklist"] =
                      Put(user_data[k[2]]["checklist"], ColumnOf(conv[k]),
                          IF last'.kind = "callback" THEN None ELSE StrV(last'.payload))]_vars

\* "abc" was typed as the time of the last meal and a typed caffeine time
\* after it, and the row saved holds both as typed
C19_Witness ==
    \E k \in Keys :
        /\ JustSaved(k)
        /\ hist[k].answers[LAST_MEAL_TIME] = <<"text", TxtAbc>>
        /\ \E row \in daily_checklist :
              /\ row["date"] = hist[k].day
              /\ row["last_meal_time"] = StrV(TxtAbc)
              /\ row["caffeine_cutoff"] = StrV(Txt2230)

\* C20: a conversation starts at ELECTRONICS_OFF and every change of its
\* state is one of: on to the next question; from TRAINING past
\* LAST_MEAL_TIME when the meal is logged; from a boolean question into
\* WAITING_OTHER_TEXT and from there on to the question after the one left;
\* to the end by /cancel, by the save after No at MEDITATION or after
\* MEDITATION_MINUTES.  A save comes only after every question other than
\* LAST_MEAL_TIME and MEDITATION_MINUTES has been answered.
C20_FixedOrder ==
    [][\A k \in Keys :
        /\ conv'[k] # conv[k] =>
              LET s == conv[k]
                  t == conv'[k]
              IN  \/ s = END /\ t = ELECTRONICS_OFF /\ last'.handler = "checklist_start"
                  \/ s # END /\ t = END /\ last'.handler = "cancel"
                  \/ s \in {MEDITATION, MEDITATION_MINUTES} /\ t = END /\ SummarySent'
                  \/ s \in ELECTRONICS_OFF..MEDITATION /\ t = s + 1
                  \/ /\ s = TRAINING /\ t = CAFFEINE_CUTOFF
                     /\ \E r \in last_meal_log : r.date = hist[k].day
                  \/ s \in BooleanStates /\ t = WAITING_OTHER_TEXT
                  \/ s = WAITING_OTHER_TEXT /\ t = hist[k].detour_from + 1
        /\ (last'.key = k /\ SummarySent'
               /\ last'.handler \in {"meditation", "meditation_minutes"}) =>
              /\ AlwaysAsked \subseteq DOMAIN hist'[k].answers
              /\ AlwaysAsked \subseteq hist'[k].visited]_vars

\* a session with a detour from Sauna and with the minutes asked was saved
C20_Witness ==
    \E k \in Keys :
        /\ JustSaved(k)
        /\ hist[k].detour_from = SAUNA
        /\ hist[k].visited = ELECTRONICS_OFF..WAITING_OTHER_TEXT

\* how the summary is to render boolean field f of answer data
ExpectedRendering(data, f) ==
    LET notes == IF "other_notes" \in DOMAIN data THEN data["other_notes"].d ELSE EmptyDict
    IN  IF f \in DOMAIN notes THEN [t |-> "other", s |-> notes[f]]
        ELSE IF data[f] = IntV(1) THEN Lit("Yes")
        ELSE Lit("No")

\* C21: in the summary sent by the save, a boolean field is rendered as its
\* note when other_notes holds its key, and as Yes or No by the stored value
\* otherwise.
C21_SummaryRendersNotes ==
    \A k \in Keys :
        (JustSaved(k) /\ SummarySent) =>
            \A f \in BooleanFields \cup {"meditation"} :
                /\ f \in DOMAIN Pending(k)
                /\ out[Len(out)].head[f] = ExpectedRendering(Pending(k), f)

\* a summary was sent that renders Sauna as the note "abc" and the rinse as No
C21_Witness ==
    \E k \in Keys :
        /\ JustSaved(k)
        /\ SummarySent
        /\ out[Len(out)].head["sauna"] = [t |-> "other", s |-> TxtAbc]
        /\ out[Len(out)].head["nasal_rinse"] = Lit("No")
        /\ out[Len(out)].head["meditation"] = Lit("Yes")

\* C22: the list over [start, end] holds exactly the stored rows whose day
\* lies in the range, ends included, each day once, in ascending order.
C22_ListInRangeAscending ==
    last.handler = "get_checklists" =>
        LET start == last.payload[1]
            end == last.payload[2]
        IN  /\ {out[i] : i \in 1..Len(out)} =
                  {r \in daily_checklist :
                      DateLeq(start, r["date"]) /\ DateLeq(r["date"], end)}
            /\ \A i, j \in 1..Len(out) :
                  i < j => /\ DateLeq(out[i]["date"], out[j]["date"])
                           /\ out[i]["date"] # out[j]["date"]

\* a list of three rows, the last of the day the range ends with, was
\* returned from a table that holds an earlier day as well
C22_Witness ==
    /\ last.handler = "get_checklists"
    /\ last.payload = <<"2025-06-01", "2025-06-10">>
    /\ Len(out) = 3
    /\ out[3]["date"] = "2025-06-10"
    /\ \E r \in daily_checklist : r["date"] = "2025-05-31"

\* C23: the day of a session is the start command's argument when it has
\* one (today otherwise), it stays the same as long as the conversation
\* lasts, and the save replaces or adds the row of that day and leaves the
\* rows of every other day as they were.
C23_TargetDayFixed ==
    [][\A k \in Keys :
        last'.key = k =>
            /\ last'.handler = "checklist_start" =>
                  /\ user_data'[k[2]]["checklist_date"] = hist'[k].day
                  /\ Len(last'.payload) > 0 => hist'[k].day = last'.payload[1]
            /\ (conv[k] # END /\ conv'[k] # END) =>
                  /\ user_data'[k[2]]["checklist_date"] = user_data[k[2]]["checklist_date"]
                  /\ user_data'[k[2]]["checklist_date"] = hist[k].day
            /\ (SummarySent' /\ last'.handler \in {"meditation", "meditation_minutes"}) =>
                  /\ Cardinality({r \in daily_checklist' : r["date"] = hist[k].day}) = 1
                  /\ {r \in daily_checklist' : r["date"] # hist[k].day}
                        = {r \in daily_checklist : r["date"] # hist[k].day}]_vars

\* a session for 2025-06-02 was saved beside the row of 2025-06-01, which
\* an earlier session had saved
C23_Witness ==
    \E k \in Keys :
        /\ JustSaved(k)
        /\ hist[k].day = "2025-06-02"
        /\ \E r \in hist[k].store_at_start : r["date"] = ReferenceDay
        /\ \A r \in hist[k].store_at_start : r["date"] # "2025-06-02"
        /\ hist[k].store_at_start \subseteq daily_checklist
        /\ Cardinality(daily_checklist) = 2

\* C24: when Training is resolved the meal question is skipped exactly when
\* the side log holds an entry for the session's day at that moment (an
\* entry of another day does not count); before that, last_meal_time is
\* unset, and after it only the meal question's own handler sets it: a
\* write to the side log changes neither the session data nor the state.
C24_SideLogReadOnceAtTraining ==
    [][\A k \in Keys :
        last'.key = k =>
            LET logged == \E r \in last_meal_log : r.date = hist[k].day IN
            /\ (/\ conv[k] = TRAINING /\ conv'[k] # TRAINING
                /\ last'.handler \in {"training", "training_text"}) =>
                  /\ conv'[k] = (IF logged THEN CAFFEINE_CUTOFF ELSE LAST_MEAL_TIME)
                  /\ ~logged => "last_meal_time" \notin DOMAIN user_data'[k[2]]["checklist"]
            /\ last'.handler = "last_meal_handler" =>
                  /\ user_data' = user_data
                  /\ conv' = conv
                  /\ daily_checklist' = daily_checklist
            /\ (/\ conv[k] \in (ELECTRONICS_OFF..HEAVY_SCREEN) \cup {WAITING_OTHER_TEXT}
                /\ conv'[k] # END) =>
                  "last_meal_time" \notin DOMAIN user_data'[k[2]]["checklist"]
            /\ conv[k] \in CAFFEINE_CUTOFF..MEDITATION_MINUTES =>
                  Get(user_data'[k[2]], "checklist") = None
                  \/ Get(user_data'[k[2]]["checklist"], "last_meal_time")
                        = Get(user_data[k[2]]["checklist"], "last_meal_time")]_vars

\* the meal of the session's day was logged at Hydration, after the meal
\* question had been skipped by its button: the answer stays None
C24_Witness ==
    \E k \in Keys :
        /\ last.key = k
        /\ last.handler = "last_meal_handler"
        /\ last.from = HYDRATION
        /\ conv[k] = HYDRATION
        /\ \E r \in last_meal_log : r.date = hist[k].day
        /\ Pending(k)["last_meal_time"] = None

\* C25 (as claimed): a text sent at Training before Other was tapped there
\* changes neither the state nor the session data.
C25_TrainingTextOnlyAfterOther ==
    [][\A k \in Keys :
        (/\ last'.key = k
         /\ conv[k] = TRAINING
         /\ last'.kind = "text"
         /\ ~hist[k].asked_training_text) =>
            /\ conv'[k] = TRAINING
            /\ user_data' = user_data]_vars

\* C26 (as claimed): the text "skip" typed at LAST_MEAL_TIME or at
\* CAFFEINE_CUTOFF stores None in the field, as the Skip button does.
C26_TypedSkipStoresNull ==
    \A k \in Keys :
        (/\ last.key = k
         /\ last.from \in {LAST_MEAL_TIME, CAFFEINE_CUTOFF}
         /\ last.kind = "text"
         /\ last.payload = TokSkip
         /\ last.error = "none") =>
            Pending(k)[ColumnOf(last.from)] = None

\* C27 (as claimed): whenever the conversation of a key is in
\* WAITING_OTHER_TEXT, other_pending is set and holds the field of the boolean
\* question where Other was tapped and the state that follows that question,
\* with the user in one chat or in several.
C27_OverrideSlotPopulated ==
    \A k \in Keys :
        conv[k] = WAITING_OTHER_TEXT =>
            /\ "other_pending" \in DOMAIN user_data[k[2]]
            /\ user_data[k[2]]["other_pending"].key = FieldOf(hist[k].detour_from)
            /\ user_data[k[2]]["other_pending"].next_state = hist[k].detour_from + 1

\* C28: daily_checklist changes only in the step that ends the session with
\* the summary, taken by meditation or meditation_minutes; while a session is
\* open, and after it was cancelled, the table is the one the session found
\* when it started.
C28_StoreWrittenOnlyAtSave ==
    [][/\ daily_checklist' # daily_checklist =>
            /\ last'.handler \in {"meditation", "meditation_minutes"}
            /\ last'.error = "none"
            /\ conv[last'.key] \in {MEDITATION, MEDITATION_MINUTES}
            /\ conv'[last'.key] = END
            /\ SummarySent'
       /\ \A k \in SpecKeys :
            (conv'[k] # END \/ last'.handler = "cancel") =>
                daily_checklist' = hist'[k].store_at_start]_vars

\* a refused MEDITATION_MINUTES input, thirteen answers given, nothing stored
C28_Witness ==
    \E k \in SpecKeys :
        /\ last.key = k
        /\ last.handler = "meditation_minutes"
        /\ last.error = "none"
        /\ conv[k] = MEDITATION_MINUTES
        /\ Pending(k)["supplements"] = StrV(TxtMagnesium)
        /\ Pending(k)["meditation"] = IntV(1)
        /\ daily_checklist = {}

\* the fields of the boolean questions where this session of key k tapped Other
NotedFields(k) ==
    {FieldOf(st) : st \in {q \in BooleanStates \cap DOMAIN hist[k].answers :
                              hist[k].answers[q] = <<"callback", TokOther>>}}

\* C29: /checklist leaves an empty pending answer, and the record a session
\* saves holds nothing but that session's own: a note only for a question
\* where this session tapped Other, and None (or the logged meal time) in
\* the column of every question this session did not answer.
C29_FreshPendingAnswer ==
    \A k \in SpecKeys :
        /\ (last.key = k /\ last.handler = "checklist_start") => Pending(k) = EmptyDict
        /\ JustSaved(k) =>
              \E row \in daily_checklist :
                  /\ row["date"] = hist[k].day
                  /\ RowNotes(row) \subseteq NotedFields(k)
                  /\ MEDITATION_MINUTES \notin DOMAIN hist[k].answers
                        => row["meditation_minutes"] = None
                  /\ LAST_MEAL_TIME \notin DOMAIN hist[k].answers
                        => row["last_meal_time"] = hist[k].log_seen

\* a session saved a note for its day; the next session for that day, with no
\* Other, has just saved a record without notes
C29_Witness ==
    \E k \in SpecKeys :
        /\ JustSaved(k)
        /\ NotedFields(k) = {}
        /\ \E old \in hist[k].store_at_start :
              /\ old["date"] = hist[k].day
              /\ RowNotes(old) # {}
        /\ \E row \in daily_checklist :
              /\ row["date"] = hist[k].day
              /\ RowNotes(row) = {}

\* how far the session of key k has come: the questions in their order, the
\* note after Other between its question and the next, the end above all
Rank(st, detour_from) ==
    CASE st = END -> 2 * 14
      [] st = WAITING_OTHER_TEXT -> 2 * detour_from + 1
      [] OTHER -> 2 * st

\* no Other was chosen in the session of key k
NoOtherChosen(k) == NotedFields(k) = {} /\ ~hist[k].asked_training_text

\* a step that moves the session of key k forward
Forward(k) ==
    /\ Next
    /\ Rank(conv'[k], hist'[k].detour_from) > Rank(conv[k], hist[k].detour_from)

\* The user keeps answering: a session that stays open gets, sooner or
\* later, an input that moves it forward.
SpecLive ==
    /\ Init
    /\ [][Next]_vars
    /\ \A k \in SpecKeys : WF_vars(Forward(k))

\* C30: an input that the state accepts and whose handler does not raise
\* moves the session strictly forward, towards the save, unless it is Other
\* at TRAINING or text at MEDITATION_MINUTES that is no integer, which ask
\* again; a session where Other was never chosen is saved after at most 14
\* such inputs; and every session that was started ends, by the save or by
\* /cancel, when the user keeps answering.
C30_AcceptedInputsAdvance ==
    /\ [][\A k \in SpecKeys :
            /\ (/\ last'.key = k
                /\ conv[k] # END
                /\ last'.error = "none"
                /\ Accepted(conv[k], last'.kind, last'.payload)) =>
                   IF SelfLoopInput(conv[k], last'.kind, last'.payload)
                   THEN conv'[k] = conv[k]
                   ELSE Rank(conv'[k], hist'[k].detour_from)
                            > Rank(conv[k], hist[k].detour_from)
            /\ (JustSaved(k)' /\ NoOtherChosen(k)') => hist'[k].inputs <= 14]_vars
    /\ \A k \in SpecKeys : (conv[k] # END) ~> (conv[k] = END)

\* a session where Other was never chosen has just been saved by its
\* fourteenth accepted input
C30_Witness ==
    \E k \in SpecKeys :
        /\ JustSaved(k)
        /\ NoOtherChosen(k)
        /\ hist[k].inputs = 14
        /\ LAST_MEAL_TIME \in DOMAIN hist[k].answers
        /\ MEDITATION_MINUTES \in DOMAIN hist[k].answers

\* the handler the conversation has for text in state st
TextHandlerOf(st) ==
    CASE st = TRAINING -> "training_text"
      [] st = LAST_MEAL_TIME -> "last_meal_time"
      [] st = CAFFEINE_CUTOFF -> "caffeine_cutoff"
      [] st = SUPPLEMENTS -> "supplements_text"
      [] st = MEDITATION_MINUTES -> "meditation_minutes"
      [] st = WAITING_OTHER_TEXT -> "waiting_other_text"

\* the step is key k's message 'l' (or 'L')
ShortcutSent(k) ==
    /\ last'.key = k
    /\ last'.kind = "text"
    /\ MatchesL(last'.payload)

\* the side log has the row of day d and time t and is otherwise as it was
LoggedAt(d, t) ==
    /\ [date |-> d, time |-> t] \in last_meal_log'
    /\ \A r \in last_meal_log' : r.date = d \/ r \in last_meal_log
    /\ \A r \in last_meal_log : r.date = d \/ r \in last_meal_log'

\* C31 (as claimed): a message 'l' sent where the conversation takes text
\* goes to the text handler of that state and last_meal_log stays as it is;
\* sent anywhere else it goes to last_meal_handler, the moment is written
\* into last_meal_log, and the conversation and user_data stay as they are.
C31_ShortcutAlwaysLogs ==
    [][\A k \in SpecKeys :
         ShortcutSent(k) =>
             IF conv[k] \in TextStates
             THEN /\ last'.handler = TextHandlerOf(conv[k])
                  /\ last_meal_log' = last_meal_log
             ELSE /\ last'.handler = "last_meal_handler"
                  /\ \E d \in Days, t \in Times : LoggedAt(d, t)
                  /\ conv' = conv
                  /\ user_data' = user_data]_vars

\* C31: a message 'l' sent where the conversation takes text (TRAINING,
\* LAST_MEAL_TIME, CAFFEINE_CUTOFF, SUPPLEMENTS, MEDITATION_MINUTES,
\* WAITING_OTHER_TEXT) goes to the text handler of that state and
\* last_meal_log stays as it is; sent anywhere else it goes to
\* last_meal_handler, and the conversation and user_data stay as they are:
\* when the write of the side log is carried out, the log has the row of the
\* moment (the time of the reply) in place of the row of that day; when the
\* write raises OperationalError, the log is as it was and no reply is sent.
C31_ShortcutDoesNotInterfere ==
    [][\A k \in SpecKeys :
         ShortcutSent(k) =>
             IF conv[k] \in TextStates
             THEN /\ last'.handler = TextHandlerOf(conv[k])
                  /\ last_meal_log' = last_meal_log
             ELSE /\ last'.handler = "last_meal_handler"
                  /\ conv' = conv
                  /\ user_data' = user_data
                  /\ IF last'.error = "none"
                     THEN \E d \in Days, t \in Times :
                             /\ LoggedAt(d, t)
                             /\ out' = <<Msg("reply", StrV(t), Q_MEAL_LOGGED, NoKb)>>
                     ELSE /\ last'.error = "OperationalError"
                          /\ last_meal_log' = last_meal_log
                          /\ out' = << >>]_vars

\* 'l' was sent before the checklist and logged the meal; in the checklist,
\* after Other at the first question, 'l' was sent again: it was taken as the
\* note of that question, and the side log still has the one row
C31_Witness ==
    \E k \in SpecKeys :
        /\ last.key = k
        /\ last.handler = "waiting_other_text"
        /\ last.error = "none"
        /\ last.payload = TxtL
        /\ last.from = WAITING_OTHER_TEXT
        /\ conv[k] = NASAL_RINSE
        /\ Pending(k)["other_notes"] = DictV(Put(EmptyDict, "electronics_off", TxtL))
        /\ \E d \in Days, t \in Times : last_meal_log = {[date |-> d, time |-> t]}

\* the days from start to end, both included, in order
RangeDays(start, end) ==
    LET first == fromisoformat(start)
        last_day == fromisoformat(end)
    IN  SelectSeq(SpanDays \o TopDays, LAMBDA d : DateLe(first, d) /\ DateLe(d, last_day))

\* the days of the call of backfill that were stored
StoredDays == {frame.attempted[i] : i \in {j \in 1..Len(frame.attempted) :
                                              frame.outcomes[j] = "stored"}}

\* the table as the call of backfill has it, or left it when it ended
TableOfCall == IF frame.pc = "loop" THEN oura_data ELSE frame.table_at_return

\* the days tried so far are the first days of the range, in order, each
\* once; the count is the number of them stored; the days stored are in
\* oura_data and every other row of the table is as the call found it
TriedInOrder ==
    LET days == RangeDays(frame.start, frame.end)
        n == Len(frame.attempted)
    IN  /\ n <= Len(days)
        /\ \A i \in 1..n : frame.attempted[i] = isoformat(days[i])
        /\ frame.count = Cardinality({i \in 1..n : frame.outcomes[i] = "stored"})
        /\ \A d \in StoredDays : [date |-> d] \in TableOfCall
        /\ \A r \in TableOfCall : r.date \in StoredDays \/ r \in frame.table_at_call
        /\ \A r \in frame.table_at_call : r.date \in StoredDays \/ r \in TableOfCall

\* every day of the range was tried
AllTried == Len(frame.attempted) = Len(RangeDays(frame.start, frame.end))
    /\ frame.outcomes[2] = "OperationalError"
    /\ frame.outcomes[MaxTopSpan] = "stored"
    /\ frame.attempted[MaxTopSpan] = <<"9", "9", "9", "9", "-", "1", "2", "-", "3", "1">>
    /\ frame.count = 1
    /\ [date |-> isoformat(DateMax)] \in frame.table_at_return

\* the date pinned for the next voice note of the user, None when none is
Pin == Get(user_data[VoiceUser], "next_date")

\* C33 (as claimed): a voice note that is stored goes under the pinned date
\* when one is pinned and under today otherwise, and clears the pin; a voice
\* note that is not stored, because the download, the transcription or the
\* storing failed, adds no row and leaves the pin as it was.
C33_PinAppliesToNextStoredNote ==
    [][last'.handler = "voice_handler" =>
          IF last'.error = "none"
          THEN /\ Len(transcripts') = Len(transcripts) + 1
               /\ transcripts'[Len(transcripts')].date =
                      (IF Pin # None THEN Pin.s ELSE last'.payload)
               /\ Pin' = None
          ELSE /\ transcripts' = transcripts
               /\ Pin' = Pin]_vars

\* C34 (as claimed): for a text that is not empty and max_len >= 1, every
\* chunk _split_message returns is not empty and has at most max_len
\* characters.
C34_ChunksNonEmptyAndBounded ==
    last.handler = "split_message" =>
        \A i \in 1..Len(out) : Len(out[i]) >= 1 /\ Len(out[i]) <= last.payload[2]

====
